---- MODULE Spec2Model ----
(***************************************************************************)
(* A model of the assembler of rutisegal/assembler: the driver             *)
(* (assembler.c), the macro expander (pre_assembler.c, macro_utils.c),     *)
(* the first pass (first_pass.c, first_pass_utils.c, data_handling.c,      *)
(* instruction_handling.c) and the second pass (second_pass.c,             *)
(* second_pass_utils.c).                                                   *)
(*                                                                         *)
(* A source line is modelled by what the scanners read off it: a record of *)
(* its tokens (label, command, operands, numbers) and of the syntactic     *)
(* class of each token.  The words, the symbol table, the pending list,    *)
(* the global flags and the files on disk are modelled exactly.            *)
(***************************************************************************)
EXTENDS Integers, Sequences, FiniteSets, TLC

(* ------------------------------------------------------------------ *)
(* Program constants                                                   *)
(* ------------------------------------------------------------------ *)
MEM_AVAIL_WORDS == 156
VALID_LINE == 80
MIN_NUM_D == -512
MAX_NUM_D == 511
MIN_NUM_I == -128
MAX_NUM_I == 127
MIN_NUM_REG == 0
MAX_NUM_REG == 7
OPCODE_SHIFT == 6
NUM_SHIFT == 2
SRC_SHIFT == 4
DST_SHIFT == 2
ROW_SHIFT == 6
COL_SHIFT == 2
SRC_REG_SHIFT == 6
ERROR_OCCURRED == -3
FATAL_ERROR == -4
INT_MAX == 2147483647
ORG_ADDRESS == 100
WORD_MASK == 1023
ARE_MASK == 3
ADDR_VALUE_MASK == 255
ADDR_VALUE_SHIFT == 2
ADDR_VALUE_MAX == 255
WORD_BASE4_DIGITS == 5
ADDR_BASE4_DIGITS == 4
ARE_A == 0
ARE_E == 1
ARE_R == 2
UCHAR_MOD == 256
RTS == 14
CMP == 1
LEA == 4
PRN == 13

(* enum ADDRESS *)
IMMEDIATE == 0
DIRECT == 1
MATRIX_ACCESS == 2
DIRECT_REGISTER == 3

(* operand roles *)
SOURCE == 1
DESTINATION == 2

QUAD_DIGITS == <<"a", "b", "c", "d">>

ins_opcode ==
  <<"mov", "cmp", "add", "sub", "lea", "clr", "not", "inc", "dec", "jmp",
    "bne", "jsr", "red", "prn", "rts", "stop">>

TwoPrmCmds == {"mov", "add", "sub", "cmp", "lea"}
OnePrmCmds == {"clr", "not", "inc", "dec", "jmp", "bne", "jsr", "red", "prn"}
NoPrmCmds == {"rts", "stop"}
DataCmds == {"data", "string", "mat"}

reserved_words ==
  {"mov", "cmp", "add", "sub", "not", "clr", "lea", "inc", "dec", "jmp",
   "bne", "red", "prn", "jsr", "rts", "stop", "mcro", "mcroend",
   "data", "string", "mat", "extern", "entry"}

reg_set == {"r0", "r1", "r2", "r3", "r4", "r5", "r6", "r7"}

(* ------------------------------------------------------------------ *)
(* Bounds of the model                                                 *)
(* ------------------------------------------------------------------ *)
MaxFiles == 2        \* basenames on the command line
MaxSrcLines == 3     \* lines of a .as file
MaxFaults == 1       \* allocation / I-O failures injected in a run

(* ------------------------------------------------------------------ *)
(* Integer helpers: C's bit operators on the values the code uses      *)
(* ------------------------------------------------------------------ *)
RECURSIVE Pow2(_)
Pow2(n) == IF n = 0 THEN 1 ELSE 2 * Pow2(n - 1)

Shl(x, n) == x * Pow2(n)

RECURSIVE BitOr(_, _)
BitOr(a, b) ==
  IF a = 0 THEN b
  ELSE IF b = 0 THEN a
  ELSE IF a = -1 \/ b = -1 THEN -1
  ELSE (IF a % 2 = 1 \/ b % 2 = 1 THEN 1 ELSE 0) + 2 * BitOr(a \div 2, b \div 2)

(* x & mask for a mask of the form 2^k - 1 (two's complement) *)
AndLow(x, mask) == x % (mask + 1)

(* x & ~mask for a mask of the form 2^k - 1 (two's complement) *)
ClearLow(x, mask) == x - (x % (mask + 1))

UChar(x) == x % UCHAR_MOD

(* 32-bit int arithmetic that wraps around: a sum, and a product by a  *)
(* non-negative factor                                                 *)
AddInt32(x, y) ==
  IF x > 0 /\ y > 0 /\ x > INT_MAX - y
  THEN (x - INT_MAX - 1) + (y - INT_MAX - 1)
  ELSE IF x < 0 /\ y < 0 /\ x < (-INT_MAX - 1) - y
  THEN (x + INT_MAX + 1) + (y + INT_MAX + 1)
  ELSE x + y

RECURSIVE MulInt32(_, _)
MulInt32(a, b) ==
  IF b = 0 THEN 0
  ELSE LET h == MulInt32(a, b \div 2)
           d == AddInt32(h, h)
       IN IF b % 2 = 1 THEN AddInt32(d, a) ELSE d

Resize(s, n) == [i \in 1..n |-> IF i <= Len(s) THEN s[i] ELSE 0]

(* ------------------------------------------------------------------ *)
(* Source lines, as the scanners read them                             *)
(* ------------------------------------------------------------------ *)
(* A number token: int = strtol consumed the whole token, v its value  *)
Num(v) == [int |-> TRUE, v |-> v]
NotNum == [int |-> FALSE, v |-> 0]

(* A matrix definition "[..][..]": syn = its bracket syntax is right    *)
MatDef(syn, r, c) == [syn |-> syn, r |-> r, c |-> c]
NoMatDef == MatDef(FALSE, 0, 0)

(* An operand token of an instruction.                                  *)
(*  t: its lexical class ("imm" starts with #, "reg" is r0..r7, "mat"   *)
(*     holds a bracket, "dir" is anything else)                         *)
Operand(t, name, num, mname, md) ==
  [t |-> t, name |-> name, num |-> num, mname |-> mname, md |-> md]
OpImm(num) == Operand("imm", "", num, "ok", NoMatDef)
OpReg(n) == Operand("reg", "", Num(n), "ok", NoMatDef)
OpDir(name) == Operand("dir", name, NotNum, "ok", NoMatDef)
OpMat(name, mname, md) == Operand("mat", name, NotNum, mname, md)

(* A line of the .am file.                                              *)
(*  long   : more than VALID_LINE characters                            *)
(*  lab    : the first token without its colon, "" when the first token *)
(*           does not end with a colon                                  *)
(*  kind   : what follows the label                                     *)
(*  name   : the name after .entry / .extern                            *)
(*  extra  : characters after that name                                 *)
(*  cmd    : the command word                                           *)
(*  hasrest: something follows the command word                         *)
(*  commas : the class of the comma structure of the rest               *)
(*  toks   : the number tokens (.data, .mat) or characters (.string)    *)
(*  sopen, sclose : the quotes of .string                               *)
(*  md     : the matrix definition of .mat                              *)
(*  args   : the operand tokens of an instruction                       *)
(*  n      : how many consecutive lines of this text the record stands  *)
(*           for (blank lines only)                                     *)
BlankLine ==
  [long |-> FALSE, lab |-> "", kind |-> "blank", name |-> "", extra |-> FALSE,
   cmd |-> "", hasrest |-> FALSE, commas |-> "ok", toks |-> <<>>,
   sopen |-> FALSE, sclose |-> FALSE, md |-> NoMatDef, args |-> <<>>, n |-> 1]

Kind(k) == [BlankLine EXCEPT !.kind = k]
Labelled(lab, st) == [st EXCEPT !.lab = lab]
Entry(name, extra) == [Kind("entry") EXCEPT !.name = name, !.extra = extra]
Extern(name, extra) == [Kind("extern") EXCEPT !.name = name, !.extra = extra]
Data(commas, toks) ==
  [Kind("dir") EXCEPT !.cmd = "data", !.hasrest = TRUE, !.commas = commas,
                      !.toks = toks]
String(sopen, chars, sclose) ==
  [Kind("dir") EXCEPT !.cmd = "string", !.hasrest = TRUE, !.sopen = sopen,
                      !.toks = chars, !.sclose = sclose]
Mat(md, commas, toks) ==
  [Kind("dir") EXCEPT !.cmd = "mat", !.hasrest = TRUE, !.md = md,
                      !.commas = commas, !.toks = toks]
Ins(cmd, commas, args) ==
  [Kind("ins") EXCEPT !.cmd = cmd, !.hasrest = (args # <<>>),
                      !.commas = commas, !.args = args]

(* Lexical classes of names (isalpha / isalnum tests of the code)       *)
NonAlphaFirst == {"1x", "_a"}      \* first character is not a letter
NonAlnumRest == {"a_b", "a$"}          \* a later character is not alnum
UnderscoreOnly == {"a_b"}              \* letters, digits and underscores

(* ------------------------------------------------------------------ *)
(* Symbol table and pending list (assembler.h)                         *)
(* ------------------------------------------------------------------ *)
DATA == "d"
INS == "i"
EXTERNAL == "x"
ENTRY == "t"
REGULAR == "r"
UNKNOWN_LABEL_TYPE == "?"

Label(name, addr, doi, eoe) ==
  [l_name |-> name, l_address |-> addr, l_data_or_ins |-> doi,
   l_ent_or_ext |-> eoe]

Pending(name, idx, line) ==
  [label_p_name |-> name, ic_index |-> idx, line_number_use |-> line]

(* Macro objects (assembler.h); null = the table slot holds NULL        *)
Macro(name, lines) == [null |-> FALSE, name |-> name, lines |-> lines]
NullMacro == [null |-> TRUE, name |-> "", lines |-> <<>>]

(* A diagnostic written to stderr *)
Diag(ph, ln, msg) == [ph |-> ph, ln |-> ln, msg |-> msg]

(* ------------------------------------------------------------------ *)
(* First pass: the state one line of the loop reads and writes.        *)
(* A context cx holds the globals (ic, dc, error, was_reg, line_count),*)
(* the locals of first_pass that outlive a line (label_flag, label),   *)
(* the tables, the diagnostics written so far, and                     *)
(*   nalloc : allocations requested while this line is processed       *)
(*   failAt : the request that fails (0 = none)                        *)
(*   ret    : the value the last call returned                         *)
(*   ctl    : "go", "continue" (next line) or "fatal" (return)         *)
(* ------------------------------------------------------------------ *)
INT_MIN == -INT_MAX - 1
GarbageName == "?uninit"

Ret(cx, r) == [cx EXCEPT !.ret = r]
Ctl(cx, c) == [cx EXCEPT !.ctl = c]
SetError(cx) == [cx EXCEPT !.error = TRUE]
AllocFails(cx) == cx.nalloc + 1 = cx.failAt
Alloc(cx) == [cx EXCEPT !.nalloc = @ + 1]

report_error_pass_reordered(cx, msg) ==
  [cx EXCEPT !.diags = <<Diag("p1", cx.line_count, msg)>> \o @]

report_error_pass(cx, msg) ==
  [cx EXCEPT !.diags = Append(@, Diag("p1", cx.line_count, msg))]

ErrorLineUnflagged(cx, msg) == Ctl(report_error_pass(cx, msg), "continue")

(* An error of the line: the flag, the diagnostic, the next line *)
ErrorLine(cx, msg) == Ctl(report_error_pass(SetError(cx), msg), "continue")

add_ins(cx, word) ==
  IF cx.dc + cx.ic = MEM_AVAIL_WORDS
  THEN Ret(report_error_pass(SetError(cx), "There are no free cells in memory"),
           FATAL_ERROR)
  ELSE LET c1 == Alloc([cx EXCEPT !.ic = @ + 1])
       IN IF AllocFails(cx)
          THEN Ret(report_error_pass([c1 EXCEPT !.ins_set = <<>>],
                                     "Memory reallocation failed"), FATAL_ERROR)
          ELSE Ret([c1 EXCEPT !.ins_set = [Resize(@, c1.ic) EXCEPT ![c1.ic] = word]], 0)

add_data_unchecked(cx, word) ==
  LET c1 == Alloc([cx EXCEPT !.dc = @ + 1])
  IN IF AllocFails(cx)
     THEN Ret(report_error_pass([c1 EXCEPT !.dataset = <<>>],
                                "Memory reallocation failed"), FATAL_ERROR)
     ELSE Ret([c1 EXCEPT !.dataset = [Resize(@, c1.dc) EXCEPT ![c1.dc] = word]], 0)

add_data(cx, word) ==
  IF cx.dc + cx.ic = MEM_AVAIL_WORDS
  THEN Ret(report_error_pass(SetError(cx), "There are no free cells in memory"),
           FATAL_ERROR)
  ELSE LET c1 == Alloc([cx EXCEPT !.dc = @ + 1])
       IN IF AllocFails(cx)
          THEN Ret(report_error_pass([c1 EXCEPT !.dataset = <<>>],
                                     "Memory reallocation failed"), FATAL_ERROR)
          ELSE Ret([c1 EXCEPT !.dataset = [Resize(@, c1.dc) EXCEPT ![c1.dc] = word]], 0)

add_pending_refs(cx, ic, line_num, label_name) ==
  LET c1 == Alloc(cx)
  IN IF AllocFails(cx)
     THEN Ret(report_error_pass([c1 EXCEPT !.pending_refs = <<>>],
                                "Memory reallocation failed"), FATAL_ERROR)
     ELSE LET c2 == Alloc(c1)
          IN IF AllocFails(c1)
             THEN Ret(report_error_pass(
                        [c2 EXCEPT !.pending_refs =
                                     Append(@, Pending(GarbageName, 0, 0))],
                        "Dynamic allocation failed"), FATAL_ERROR)
             ELSE Ret([c2 EXCEPT !.pending_refs =
                                   Append(@, Pending(label_name, UChar(ic - 1), line_num))],
                      0)

is_label_name(label, label_set) ==
  \E j \in 1..Len(label_set) : label_set[j].l_name = label

(* The least index of a set of indices, 0 when it is empty *)
First(S) == IF S = {} THEN 0 ELSE CHOOSE i \in S : \A j \in S : i <= j

LabelAddress(cx, data_or_ins, ent_or_ext, old) ==
  IF ent_or_ext = EXTERNAL THEN 0
  ELSE IF data_or_ins = UNKNOWN_LABEL_TYPE THEN UChar(cx.line_count)
  ELSE IF data_or_ins = DATA THEN UChar(cx.dc)
  ELSE IF data_or_ins = INS THEN UChar(cx.ic)
  ELSE old

IsUnknown(l) == l.l_data_or_ins = UNKNOWN_LABEL_TYPE

add_label_appending(cx, name, data_or_ins, ent_or_ext) ==
  Ret([Alloc(Alloc(cx)) EXCEPT !.label_set =
         Append(@, Label(name, LabelAddress(cx, data_or_ins, ent_or_ext, 0),
                         data_or_ins, ent_or_ext))], 0)

add_label(cx, name, data_or_ins, ent_or_ext) ==
  LET u == First({i \in 1..Len(cx.label_set) : IsUnknown(cx.label_set[i])})
  IN IF is_label_name(name, cx.label_set) /\ u # 0
     THEN Ret([cx EXCEPT !.label_set[u].l_data_or_ins = data_or_ins,
                          !.label_set[u].l_address =
                             IF data_or_ins = DATA THEN UChar(cx.dc)
                             ELSE IF data_or_ins = INS THEN UChar(cx.ic)
                             ELSE @], 0)
     ELSE LET c1 == Alloc(cx)
          IN IF AllocFails(cx)
             THEN Ret(report_error_pass([c1 EXCEPT !.label_set = <<>>],
                                        "Memory reallocation failed"), FATAL_ERROR)
             ELSE LET c2 == Alloc(c1)
                  IN IF AllocFails(c1)
                     THEN Ret(report_error_pass(
                                [c2 EXCEPT !.label_set =
                                   Append(@, Label(GarbageName, 0, UNKNOWN_LABEL_TYPE, REGULAR))],
                                "Dynamic allocation failed"), FATAL_ERROR)
                     ELSE Ret([c2 EXCEPT !.label_set =
                                 Append(@, Label(name,
                                                 LabelAddress(cx, data_or_ins, ent_or_ext, 0),
                                                 data_or_ins, ent_or_ext))], 0)

is_reg_name(label) == label \in reg_set
is_reserved_word(word) == word \in reserved_words

(* find_macro: the index of the first macro named name, 0 when none.   *)
(* MacroNullRead: the search reads the name of a NULL slot on its way. *)
find_macro(mtab, name) ==
  First({i \in 1..Len(mtab) : ~mtab[i].null /\ mtab[i].name = name})
MacroNullRead(mtab, name) ==
  \E i \in 1..Len(mtab) :
     /\ mtab[i].null
     /\ (find_macro(mtab, name) = 0 \/ i < find_macro(mtab, name))

is_valid_label(cx, label, mtab) ==
  LET i == First({j \in 1..Len(cx.label_set) : cx.label_set[j].l_name = label})
      Bad(msg) == Ret(report_error_pass(SetError(cx), msg), 0)
  IN IF label \in NonAlphaFirst
     THEN Bad("Invalid label name - first character must be a letter")
     ELSE IF label \in NonAlnumRest
     THEN Bad("Invalid label name - A valid label name contains only numbers or letters")
     ELSE IF i # 0 /\ ~IsUnknown(cx.label_set[i])
     THEN Bad("A label with the same name already exists")
     ELSE IF is_reg_name(label)
     THEN Bad("The label name is invalid - it is a register name")
     ELSE IF is_reserved_word(label)
     THEN Bad("The label name is invalid - it is a reserved word")
     ELSE IF find_macro(mtab, label) # 0
     THEN Bad("The label name is invalid - it is a macro name")
     ELSE Ret(cx, 1)

(* ------------------------------------------------------------------ *)
(* data_handling.c                                                     *)
(* ------------------------------------------------------------------ *)
is_valid_num(cx, tok, num_type) ==
  IF ~tok.int
  THEN Ret(report_error_pass(SetError(cx),
             "The parameter is invalid - expecting an integer to be received"), INT_MIN)
  ELSE IF num_type = DATA /\ (tok.v > MAX_NUM_D \/ tok.v < MIN_NUM_D)
  THEN Ret(report_error_pass(SetError(cx),
             "The number is invalid because it requires more than the legal number of bits"),
           INT_MIN)
  ELSE IF num_type = INS /\ (tok.v > MAX_NUM_I \/ tok.v < MIN_NUM_I)
  THEN Ret(report_error_pass(SetError(cx),
             "The number is invalid because it requires more than the legal number of bits"),
           INT_MIN)
  ELSE Ret(cx, tok.v)

(* check_mat_def on a token whose bracket syntax is md.syn; the values *)
(* between the brackets are md.r and md.c                              *)
check_mat_def(cx, md, type) ==
  IF ~md.syn
  THEN Ret(report_error_pass(cx, "Missing bracket, number or another character was received"),
           ERROR_OCCURRED)
  ELSE IF md.r > INT_MAX \/ md.r < 0
  THEN Ret(report_error_pass(cx,
             "Invalid row size (the required size must be positive and not exceed the size of an int)"),
           ERROR_OCCURRED)
  ELSE IF md.c > INT_MAX \/ md.c < 0
  THEN Ret(report_error_pass(cx,
             "Invalid column size (the required size must be positive and not exceed the size of an int)"),
           ERROR_OCCURRED)
  ELSE Ret(cx, 0)

CommaMessage(commas) ==
  CASE commas = "lead" -> "There is a comma before parameters"
    [] commas = "multi" -> "There is more than one comma between parameters"
    [] commas = "missing" -> "Missing comma between parameters"
    [] OTHER -> "There is a comma after all parameters"

(* is_valid_commas on a rest whose comma structure has class commas    *)
is_valid_commas(cx, commas) ==
  IF commas = "ok"
  THEN Ret(cx, 1)
  ELSE Ret(report_error_pass(SetError(cx), CommaMessage(commas)), 0)

RECURSIVE data_loop(_, _, _)
data_loop(cx, toks, i) ==
  IF i > Len(toks) THEN Ret(cx, 0)
  ELSE LET c1 == is_valid_num(cx, toks[i], DATA)
       IN IF c1.ret = INT_MIN THEN Ret(c1, 0)
          ELSE LET c2 == add_data(c1, c1.ret)
               IN IF c2.ret = FATAL_ERROR THEN c2 ELSE data_loop(c2, toks, i + 1)

data_cmd(cx, st) ==
  LET c1 == is_valid_commas(cx, st.commas)
  IN IF c1.ret = 0 THEN Ret(c1, 0) ELSE data_loop(c1, st.toks, 1)

RECURSIVE string_loop(_, _, _)
string_loop(cx, chars, i) ==
  IF i > Len(chars) THEN Ret(cx, 0)
  ELSE IF chars[i].v > 31 /\ chars[i].v < 127
  THEN LET c1 == add_data(cx, chars[i].v)
       IN IF c1.ret = FATAL_ERROR THEN c1 ELSE string_loop(c1, chars, i + 1)
  ELSE Ret(report_error_pass(SetError(cx), "Invalid string - invisible character"),
           ERROR_OCCURRED)

string_cmd(cx, st) ==
  IF ~st.sopen
  THEN Ret(report_error_pass(SetError(cx), "Invalid string - missing opening quotes"), 0)
  ELSE LET c1 == string_loop(cx, st.toks, 1)
       IN IF c1.ret = FATAL_ERROR THEN c1
          ELSE IF c1.ret = ERROR_OCCURRED THEN Ret(c1, 0)
          ELSE IF ~st.sclose
          THEN Ret(report_error_pass(SetError(c1),
                     "Invalid string - missing closing quotes"), 0)
          ELSE add_data(c1, 0)

(* lines 165-172: the cells left are filled with zeros.  The loop is   *)
(* taken in one stride: the add_data calls that succeed, then the one  *)
(* that does not, if any                                               *)
Min(a, b) == IF a < b THEN a ELSE b

mat_fill(cx, mat_size) ==
  LET room == MEM_AVAIL_WORDS - (cx.dc + cx.ic)
      j == cx.failAt - cx.nalloc
      n_ok == Min(Min(mat_size, room), IF j >= 1 THEN j - 1 ELSE mat_size)
      c1 == [cx EXCEPT !.dc = @ + n_ok, !.nalloc = @ + n_ok,
                       !.dataset = Resize(@, cx.dc + n_ok)]
  IN IF n_ok = mat_size THEN Ret(c1, 0) ELSE add_data(c1, 0)

RECURSIVE mat_loop(_, _, _, _)
mat_loop(cx, toks, i, mat_size) ==
  IF i <= Len(toks) /\ mat_size > 0
  THEN LET c1 == is_valid_num(cx, toks[i], DATA)
       IN IF c1.ret = INT_MIN THEN Ret(c1, 0)
          ELSE LET c2 == add_data(c1, c1.ret)
               IN IF c2.ret = FATAL_ERROR THEN c2
                  ELSE mat_loop(c2, toks, i + 1, mat_size - 1)
  ELSE IF i <= Len(toks)
  THEN Ret(report_error_pass(SetError(cx),
             "There are unnecessary parameter(s), overflow from the defined matrix"), 0)
  ELSE IF mat_size > 0 THEN mat_fill(cx, mat_size)
  ELSE Ret(cx, 0)

mat_cmd(cx, st) ==
  LET c1 == check_mat_def(cx, st.md, DATA)
      mat_size == MulInt32(st.md.r, st.md.c)
  IN IF c1.ret = ERROR_OCCURRED THEN Ret(SetError(c1), 0)
     ELSE IF mat_size = 0
     THEN Ret(report_error_pass(SetError(c1), "A matrix of size zero is invalid"), 0)
     ELSE LET c2 == is_valid_commas(c1, st.commas)
          IN IF c2.ret = 0 THEN Ret(c2, 0)
             ELSE mat_loop(c2, st.toks, 1, mat_size)

(* ------------------------------------------------------------------ *)
(* instruction_handling.c                                              *)
(* ------------------------------------------------------------------ *)
AddrMode(arg) ==
  CASE arg.t = "imm" -> IMMEDIATE
    [] arg.t = "reg" -> DIRECT_REGISTER
    [] arg.t = "mat" -> MATRIX_ACCESS
    [] OTHER -> DIRECT

(* The register case of parse_encode_arguments *)
encode_register(cx, num, src_or_dst) ==
  IF src_or_dst = SOURCE
  THEN add_ins([cx EXCEPT !.was_reg = TRUE], Shl(num, SRC_REG_SHIFT))
  ELSE IF cx.was_reg
  THEN Ret([cx EXCEPT !.ins_set[cx.ic] = BitOr(@, Shl(num, DST_SHIFT))], 0)
  ELSE add_ins(cx, Shl(num, DST_SHIFT))

(* The matrix case of parse_encode_arguments *)
encode_matrix(cx, arg) ==
  IF arg.mname = "missing"
  THEN Ret(report_error_pass(SetError(cx), "Matrix name is missing"), ERROR_OCCURRED)
  ELSE IF arg.mname = "long"
  THEN Ret(report_error_pass(SetError(cx), "Invalid matrix name - too long"),
           ERROR_OCCURRED)
  ELSE LET c1 == add_ins(cx, 0)
       IN IF c1.ret = FATAL_ERROR THEN c1
          ELSE LET c2 == add_pending_refs(c1, c1.ic, c1.line_count, arg.name)
               IN IF c2.ret = FATAL_ERROR THEN c2
                  ELSE LET c3 == check_mat_def(c2, arg.md, INS)
                       IN IF c3.ret = ERROR_OCCURRED
                          THEN Ret(SetError(c3), ERROR_OCCURRED)
                          ELSE IF \/ arg.md.r < MIN_NUM_REG \/ arg.md.r > MAX_NUM_REG
                                  \/ arg.md.c < MIN_NUM_REG \/ arg.md.c > MAX_NUM_REG
                          THEN Ret(report_error_pass(SetError(c3),
                                     "A register with this name does not exist"),
                                   ERROR_OCCURRED)
                          ELSE add_ins(c3, BitOr(Shl(arg.md.r, ROW_SHIFT),
                                                 Shl(arg.md.c, COL_SHIFT)))

ImmediateWordUnshifted(num) == num

(* The word of an immediate operand (line 190) *)
ImmediateWord(num) == Shl(num, NUM_SHIFT)

(* parse_encode_arguments: ret is the addressing mode, ERROR_OCCURRED  *)
(* or FATAL_ERROR; allowed is the set of modes passed as varargs       *)
parse_encode_arguments(cx, arg, src_or_dst, allowed) ==
  LET argument_adrr == AddrMode(arg)
      Mode(c) == IF c.ret \in {FATAL_ERROR, ERROR_OCCURRED} THEN c
                 ELSE Ret(c, argument_adrr)
  IN IF argument_adrr \notin allowed
     THEN Ret(report_error_pass(SetError(cx),
                IF src_or_dst = DESTINATION
                THEN "The destination parameter type does not match the command"
                ELSE "The source parameter type does not match the command"),
              ERROR_OCCURRED)
     ELSE CASE argument_adrr = IMMEDIATE ->
                 LET c1 == is_valid_num(cx, arg.num, INS)
                 IN IF c1.ret = INT_MIN THEN Ret(c1, ERROR_OCCURRED)
                    ELSE Mode(add_ins(c1, ImmediateWord(c1.ret)))
            [] argument_adrr = DIRECT ->
                 LET c1 == add_ins(cx, 0)
                 IN IF c1.ret = FATAL_ERROR THEN c1
                    ELSE Mode(add_pending_refs(c1, c1.ic, c1.line_count, arg.name))
            [] argument_adrr = MATRIX_ACCESS -> Mode(encode_matrix(cx, arg))
            [] OTHER -> Mode(encode_register(cx, arg.num.v, src_or_dst))

AllModes == {IMMEDIATE, DIRECT, MATRIX_ACCESS, DIRECT_REGISTER}

AllowedModes_any(opcode, src_or_dst) == AllModes

(* The modes handle_two_prms / handle_one_prm pass for an operand      *)
AllowedModes(opcode, src_or_dst) ==
  IF src_or_dst = SOURCE
  THEN IF opcode = LEA THEN {DIRECT, MATRIX_ACCESS} ELSE AllModes
  ELSE IF opcode \in {CMP, PRN} THEN AllModes
       ELSE {DIRECT, MATRIX_ACCESS, DIRECT_REGISTER}

TitleWord(opcode, src_addr, dst_addr) ==
  BitOr(Shl(opcode, OPCODE_SHIFT),
        BitOr(Shl(src_addr, SRC_SHIFT), Shl(dst_addr, DST_SHIFT)))

handle_two_prms(cx, args, opcode) ==
  LET c0 == add_ins(cx, 0)
      ic_title == c0.ic
  IN IF c0.ret = FATAL_ERROR THEN c0
     ELSE IF Len(args) < 1
     THEN Ret(report_error_pass(SetError(c0), "Missing parameters"), 0)
     ELSE LET c1 == parse_encode_arguments(c0, args[1], SOURCE,
                                           AllowedModes(opcode, SOURCE))
          IN IF c1.ret = FATAL_ERROR THEN c1
             ELSE IF c1.ret = ERROR_OCCURRED THEN Ret(c1, 0)
             ELSE IF Len(args) < 2
             THEN Ret(report_error_pass(SetError(c1), "Missing parameter"), 0)
             ELSE LET c2 == parse_encode_arguments(c1, args[2], DESTINATION,
                                                   AllowedModes(opcode, DESTINATION))
                      c3 == [c2 EXCEPT !.was_reg = FALSE]
                  IN IF c2.ret = FATAL_ERROR THEN c2
                     ELSE IF c2.ret = ERROR_OCCURRED THEN Ret(c2, 0)
                     ELSE IF Len(args) > 2
                     THEN Ret(report_error_pass(SetError(c3),
                                "There are unnecessary parameter(s)"), 0)
                     ELSE Ret([c3 EXCEPT !.ins_set[ic_title] =
                                           TitleWord(opcode, c1.ret, c2.ret)], 0)

handle_one_prm(cx, args, opcode) ==
  LET c0 == add_ins(cx, 0)
      ic_title == c0.ic
  IN IF c0.ret = FATAL_ERROR THEN c0
     ELSE IF Len(args) < 1
     THEN Ret(report_error_pass(SetError(c0), "Missing parameter"), 0)
     ELSE LET c1 == parse_encode_arguments(c0, args[1], DESTINATION,
                                           AllowedModes(opcode, DESTINATION))
          IN IF c1.ret = FATAL_ERROR THEN c1
             ELSE IF c1.ret = ERROR_OCCURRED THEN Ret(c1, 0)
             ELSE IF Len(args) > 1
             THEN Ret(report_error_pass(SetError(c1),
                        "There are unnecessary parameter(s)"), 0)
             ELSE Ret([c1 EXCEPT !.ins_set[ic_title] =
                                   TitleWord(opcode, 0, c1.ret)], 0)

handle_no_prm(cx, st, opcode) ==
  LET c0 == add_ins(cx, Shl(opcode, OPCODE_SHIFT))
  IN IF c0.ret = FATAL_ERROR THEN c0
     ELSE IF st.hasrest
     THEN Ret(SetError(report_error_pass(c0,
                IF st.commas = "lead"
                THEN " There is an extra comma after the command name"
                ELSE "There are unnecessary parameter(s)")), 0)
     ELSE Ret(c0, 0)

(* ------------------------------------------------------------------ *)
(* first_pass.c: the body of the line loop                             *)
(* ------------------------------------------------------------------ *)
Opcode(cmd) == First({k \in 1..Len(ins_opcode) : ins_opcode[k] = cmd}) - 1

(* lines 131-147: the label in front of the line *)
scan_label(cx, st, mtab) ==
  IF st.lab = ""
  THEN Ctl(cx, "go")
  ELSE LET c1 == is_valid_label([cx EXCEPT !.label = st.lab], st.lab, mtab)
       IN IF c1.ret = 1 THEN Ctl([c1 EXCEPT !.label_flag = TRUE], "go")
          ELSE Ctl(c1, "continue")

FatalReturn(cx) == Ctl(cx, "fatal")

(* lines 164-209: .entry *)
entry_directive(cx, st) ==
  LET c0 == [cx EXCEPT !.label_flag = FALSE]
      i == First({j \in 1..Len(c0.label_set) : c0.label_set[j].l_name = st.name})
      Matches == {j \in 1..Len(c0.label_set) : c0.label_set[j].l_name = st.name}
      Stop == First({j \in Matches :
                       \/ c0.label_set[j].l_ent_or_ext = EXTERNAL
                       \/ IsUnknown(c0.label_set[j])})
      Marked == [j \in 1..Len(c0.label_set) |->
                   IF j \in Matches /\ (Stop = 0 \/ j < Stop)
                   THEN [c0.label_set[j] EXCEPT !.l_ent_or_ext = ENTRY]
                   ELSE c0.label_set[j]]
      c1 == [c0 EXCEPT !.label_set = Marked]
      AfterName(c) == IF st.extra
                 THEN ErrorLine(c, "Additional character(s) received after label name")
                 ELSE Ctl(c, "continue")
  IN IF st.name = ""
     THEN ErrorLine(c0, "Missing label name after declaration")
     ELSE IF i # 0
     THEN IF Stop # 0 /\ c0.label_set[Stop].l_ent_or_ext = EXTERNAL
          THEN ErrorLine(c1, "A label with this name is defined as external")
          ELSE IF Stop # 0 THEN Ctl(c1, "continue")
          ELSE AfterName(c1)
     ELSE LET c2 == add_label(c0, st.name, UNKNOWN_LABEL_TYPE, ENTRY)
          IN IF c2.ret = FATAL_ERROR THEN FatalReturn(c2) ELSE AfterName(c2)

(* lines 211-238: .extern *)
extern_directive(cx, st) ==
  LET c0 == [cx EXCEPT !.label_flag = FALSE]
  IN IF st.name = ""
     THEN ErrorLine(c0, "Missing label name after declaration")
     ELSE IF is_label_name(st.name, c0.label_set)
     THEN ErrorLine(c0, "A label with this name is defined as internal")
     ELSE LET c1 == add_label(c0, st.name, INS, EXTERNAL)
          IN IF c1.ret = FATAL_ERROR THEN FatalReturn(c1)
             ELSE IF st.extra
             THEN ErrorLine(c1, "Additional character(s) received after label name")
             ELSE Ctl(c1, "continue")

(* lines 256-274: the pending label of the line is entered *)
define_label(cx, data_or_ins) ==
  IF ~cx.label_flag THEN Ctl(cx, "go")
  ELSE LET c1 == IF is_label_name(cx.label, cx.label_set)
                 THEN add_label(cx, cx.label, data_or_ins, ENTRY)
                 ELSE add_label(cx, cx.label, data_or_ins, REGULAR)
       IN IF c1.ret = FATAL_ERROR THEN FatalReturn(c1)
          ELSE Ctl([c1 EXCEPT !.label_flag = FALSE], "go")

(* lines 276-326: the command is dispatched *)
dispatch(cx, st, data_or_ins) ==
  LET Done(c) == IF c.ret = FATAL_ERROR THEN FatalReturn(c) ELSE Ctl(c, "continue")
      opcode == Opcode(st.cmd)
  IN IF data_or_ins = DATA
     THEN IF ~st.hasrest THEN ErrorLine(cx, "Missing parameters")
          ELSE IF st.cmd = "data" THEN Done(data_cmd(cx, st))
          ELSE IF st.cmd = "string" THEN Done(string_cmd(cx, st))
          ELSE IF st.cmd = "mat" THEN Done(mat_cmd(cx, st))
          ELSE ErrorLine(cx, "Invalid command name")
     ELSE IF opcode < 0 THEN ErrorLine(cx, "Invalid command name")
          ELSE LET c1 == IF opcode < RTS THEN is_valid_commas(cx, st.commas)
                         ELSE Ret(cx, 1)
               IN IF c1.ret = 0 THEN Ctl(c1, "continue")
                  ELSE IF st.cmd \in TwoPrmCmds
                  THEN Done(handle_two_prms(c1, st.args, opcode))
                  ELSE IF st.cmd \in OnePrmCmds
                  THEN Done(handle_one_prm(c1, st.args, opcode))
                  ELSE Done(handle_no_prm(c1, st, opcode))

(* One iteration of the loop of first_pass (lines 100-327) on line st  *)
first_pass_line(cx, st, mtab) ==
  LET c0 == [cx EXCEPT !.line_count = @ + st.n, !.nalloc = 0, !.ctl = "continue"]
  IN IF st.long
     THEN ErrorLine(c0, "Invalid line length: over 80 characters")
     ELSE IF st.kind = "comment" THEN c0
     ELSE IF st.kind = "wscomment"
     THEN ErrorLine(c0, "A comment line begin with a semicolon, not a blank character")
     ELSE IF st.kind \in {"blank", "wsblank"} THEN c0
     ELSE LET c1 == scan_label(c0, st, mtab)
          IN IF c1.ctl = "continue" THEN c1
             ELSE IF st.kind = "none" THEN ErrorLine(c1, "No content after label")
             ELSE IF st.kind = "dotonly"
             THEN ErrorLine(c1, "No command and parameters")
             ELSE IF st.kind = "entry" THEN entry_directive(c1, st)
             ELSE IF st.kind = "extern" THEN extern_directive(c1, st)
             ELSE IF st.kind = "dotspace"
             THEN ErrorLine(c1, "There is a blank character after the period")
             ELSE IF st.kind = "colon" THEN ErrorLine(c1, "Invalid label length")
             ELSE LET data_or_ins == IF st.kind = "dir" THEN DATA ELSE INS
                      c2 == define_label(c1, data_or_ins)
                  IN IF c2.ctl = "fatal" THEN c2
                     ELSE dispatch(c2, st, data_or_ins)

(* ------------------------------------------------------------------ *)
(* Macro expander (pre_assembler.c, macro_utils.c)                     *)
(* ------------------------------------------------------------------ *)
(* A line of the .as file.                                              *)
(*  k    : "nl" (starts with a newline), "comment" (starts with ;),     *)
(*         "ws" (white space only: sscanf reads no token), "mcro",      *)
(*         "mcroend" (the first token), "text" (anything else)          *)
(*  long : more than VALID_LINE characters                              *)
(*  ntok : tokens sscanf reads off a mcro line (1, 2, 3)                *)
(*  name : the second token of a mcro line                              *)
(*  st   : the line as the first pass reads it                          *)
SrcLine(k, long, ntok, name, st) ==
  [k |-> k, long |-> long, ntok |-> ntok, name |-> name, st |-> st]
SrcText(st) == SrcLine("text", FALSE, 0, "", st)
SrcNl(n) == SrcLine("nl", FALSE, 0, "", [BlankLine EXCEPT !.n = n])
SrcComment == SrcLine("comment", FALSE, 0, "", Kind("comment"))
SrcWs == SrcLine("ws", FALSE, 0, "", Kind("wsblank"))
SrcMcro(ntok, name) == SrcLine("mcro", FALSE, ntok, name, Ins("mcro", "ok", <<>>))
SrcMcroend == SrcLine("mcroend", FALSE, 0, "", Ins("mcroend", "ok", <<>>))
TooLong(src) == [src EXCEPT !.long = TRUE, !.st.long = TRUE]

OtherToken == "~"
Uninit == "?unset"

(* The first token of a text line *)
FirstWord(st) == IF st.lab = "" /\ st.kind = "ins" THEN st.cmd ELSE OtherToken

MAX_MACRO_NAME == 31
TooLongNames == {"a_name_of_more_than_thirty_characters"}

MACRO_OK == 0
MACRO_SYNTAX_ERROR == 1
MACRO_RESERVED == 2
MACRO_ILLEGAL_NAME == 3
MACRO_DUPLICATE == 4

report_error(mx, msg) ==
  [mx EXCEPT !.diags = Append(@, Diag("mcro", mx.line_num, msg))]

MxError(mx, msg) == [report_error(mx, msg) EXCEPT !.error = TRUE]

is_valid_macro_name(name) ==
  /\ name # "" /\ name \notin TooLongNames
  /\ name \notin NonAlphaFirst
  /\ (name \in NonAlnumRest => name \in UnderscoreOnly)

(* is_valid_macro_start_line: ret is the code; on MACRO_OK the name is *)
(* copied to macro_name.  ctl = "null" when find_macro reads a NULL    *)
(* slot of the table.                                                  *)
is_valid_macro_start_line(mx, src) ==
  IF src.k # "mcro" \/ src.ntok # 2 THEN Ret(mx, MACRO_SYNTAX_ERROR)
  ELSE IF is_reserved_word(src.name) THEN Ret(mx, MACRO_RESERVED)
  ELSE IF ~is_valid_macro_name(src.name) THEN Ret(mx, MACRO_ILLEGAL_NAME)
  ELSE IF ~mx.nullok /\ MacroNullRead(mx.mtab, src.name)
  THEN Ctl(Ret(mx, MACRO_OK), "null")
  ELSE IF find_macro(mx.mtab, src.name) # 0 THEN Ret(mx, MACRO_DUPLICATE)
  ELSE Ret([mx EXCEPT !.macro_name = src.name], MACRO_OK)

StartLineMessage(res) ==
  CASE res = MACRO_SYNTAX_ERROR -> "Invalid macro declaration syntax"
    [] res = MACRO_RESERVED -> "Reserved word used as macro name"
    [] res = MACRO_ILLEGAL_NAME -> "Illegal macro name"
    [] OTHER -> "Duplicate macro definition"

create_macro(name) == Macro(name, <<>>)

add_line_to_macro(m, line) == [m EXCEPT !.lines = Append(@, line)]

(* lines 95-117: a line whose first token is mcro; g is what an         *)
(* uninitialised macro_name holds                                       *)
mcro_line(mx, src, g) ==
  LET c0 == IF mx.inside_macro THEN MxError(mx, "Nested macros not supported") ELSE mx
      c1 == is_valid_macro_start_line(c0, src)
      c2 == IF c1.ret # MACRO_OK THEN MxError(c1, StartLineMessage(c1.ret)) ELSE c1
      nm == IF c2.macro_name = Uninit THEN g ELSE c2.macro_name
  IN IF c1.ctl = "null" THEN c1
     ELSE IF c2.fail THEN Ctl(c2, "exit")
     ELSE [c2 EXCEPT !.macro_name = nm, !.current = create_macro(nm),
                     !.inside_macro = TRUE,
                     !.lost = @ + (IF mx.current.null THEN 0 ELSE 1)]

(* lines 120-139: a line whose first token is mcroend *)
mcroend_line(mx) ==
  LET c0 == IF ~mx.inside_macro
            THEN MxError(mx, "'mcroend' without matching 'mcro'") ELSE mx
      c1 == IF c0.current.null \/ Len(c0.current.lines) = 0
            THEN MxError(c0, "Empty macro is not allowed") ELSE c0
  IN IF c1.fail THEN Ctl(c1, "exit")
     ELSE [c1 EXCEPT !.mtab = Append(@, c1.current), !.current = NullMacro,
                     !.inside_macro = FALSE]

(* lines 141-158: a body line, an invocation or a plain line *)
other_line(mx, src) ==
  IF mx.inside_macro
  THEN IF mx.fail THEN Ctl(mx, "exit")
       ELSE [mx EXCEPT !.current = add_line_to_macro(@, src.st)]
  ELSE LET m == find_macro(mx.mtab, mx.word)
       IN IF ~mx.nullok /\ MacroNullRead(mx.mtab, mx.word) THEN Ctl(mx, "null")
          ELSE IF m # 0 THEN [mx EXCEPT !.out = @ \o mx.mtab[m].lines]
          ELSE [mx EXCEPT !.out = Append(@, src.st)]

(* One iteration of the loop of mcro_exec (lines 72-159) on line src;   *)
(* w is what an uninitialised word holds, g an uninitialised macro_name *)
mcro_exec_line(mx, src, w, g) ==
  LET c0 == [mx EXCEPT !.line_num = @ + src.st.n, !.ctl = "continue"]
      c1 == IF src.long THEN MxError(c0, "Line too long") ELSE c0
      c2 == [c1 EXCEPT !.word = IF src.k = "ws"
                                THEN (IF @ = Uninit THEN w ELSE @)
                                ELSE IF src.k = "text" THEN FirstWord(src.st)
                                ELSE src.k]
  IN IF src.k \in {"nl", "comment"} THEN [c1 EXCEPT !.out = Append(@, src.st)]
     ELSE IF c2.word = "mcro" THEN mcro_line(c2, src, g)
     ELSE IF c2.word = "mcroend" THEN mcroend_line(c2)
     ELSE other_line(c2, src)

mcro_exec_eof_unchecked(mx) == IF mx.error THEN Ret(mx, 1) ELSE Ret(mx, 0)

(* lines 161-175: after the loop *)
mcro_exec_eof(mx) ==
  LET c0 == IF mx.inside_macro
            THEN MxError(mx, "Macro not closed before end of file") ELSE mx
  IN IF c0.error THEN Ret(c0, 1) ELSE Ret(c0, 0)

(* free_all_macros reads every slot of the table *)
FreeNullRead(mtab) == \E i \in 1..Len(mtab) : mtab[i].null

(* ------------------------------------------------------------------ *)
(* Second pass (second_pass.c, second_pass_utils.c)                    *)
(* A context sx holds the instruction image being patched, the index i *)
(* of the next pending reference, the error flags, what has been       *)
(* written to the three streams, which of them are open, and           *)
(*   io : the next stream operation that can fail does fail            *)
(*   iowr : the operation that fails is the fprintf (the file has been *)
(*          opened), not the fopen                                     *)
(*   oblost : which write of a word to the .ob stream fails (0: none); *)
(*            ob is what the pass prints, oblost what the disk loses   *)
(* ------------------------------------------------------------------ *)
Pow4(n) == Pow2(2 * n)

Base4(v, n) == [k \in 1..n |-> QUAD_DIGITS[((v \div Pow4(n - k)) % 4) + 1]]

to_base4_word(value) == Base4(AndLow(value, WORD_MASK), WORD_BASE4_DIGITS)

to_base4_addr(value) == Base4(IF value < 0 THEN 0 ELSE value, ADDR_BASE4_DIGITS)

ObLine(addr, word) == [addr |-> addr, word |-> word]
NameLine(name, addr) == [name |-> name, addr |-> addr]

write_word_to_ob(sx, abs_address, word10bits) ==
  [sx EXCEPT !.ob = Append(@, ObLine(to_base4_addr(abs_address),
                                     to_base4_word(word10bits)))]

write_entry(sx, label, abs_address) ==
  IF sx.io THEN Ret([sx EXCEPT !.io = FALSE, !.ent_open = @ \/ sx.iowr], 1)
  ELSE Ret([sx EXCEPT !.ent_open = TRUE,
                      !.ent = Append(@, NameLine(label, to_base4_addr(abs_address)))], 0)

write_external(sx, label, abs_use_address) ==
  IF sx.io THEN Ret([sx EXCEPT !.io = FALSE, !.ext_open = @ \/ sx.iowr], 1)
  ELSE Ret([sx EXCEPT !.ext_open = TRUE,
                      !.ext = Append(@, NameLine(label, to_base4_addr(abs_use_address)))], 0)

find_label(labels, name) == First({k \in 1..Len(labels) : labels[k].l_name = name})

label_abs_val_no_ic(lab, ic_final) ==
  IF lab.l_ent_or_ext = EXTERNAL THEN 0 ELSE ORG_ADDRESS + lab.l_address

(* patch_word_with_label lines 145-153: the value of the label *)
label_abs_val(lab, ic_final) ==
  IF lab.l_ent_or_ext = EXTERNAL THEN 0
  ELSE IF lab.l_data_or_ins = DATA THEN ORG_ADDRESS + ic_final + lab.l_address
  ELSE ORG_ADDRESS + lab.l_address

patch_word_with_label(sx, ic_index, lab, ic_final) ==
  LET abs_val == label_abs_val(lab, ic_final)
      c0 == IF lab.l_ent_or_ext # EXTERNAL /\ abs_val > ADDR_VALUE_MAX
            THEN [sx EXCEPT !.had_error = TRUE] ELSE sx
      cleared == ClearLow(sx.ins_set[ic_index + 1],
                          BitOr(Shl(ADDR_VALUE_MASK, ADDR_VALUE_SHIFT), ARE_MASK))
  IN IF lab.l_ent_or_ext = EXTERNAL
     THEN LET c1 == write_external(c0, lab.l_name, ORG_ADDRESS + ic_index)
          IN IF c1.ret # 0 THEN Ret(c1, 1)
             ELSE Ret([c1 EXCEPT !.ins_set[ic_index + 1] = BitOr(cleared, ARE_E)], 0)
     ELSE Ret([c0 EXCEPT !.ins_set[ic_index + 1] =
                 BitOr(BitOr(cleared,
                             Shl(AndLow(abs_val, ADDR_VALUE_MASK), ADDR_VALUE_SHIFT)),
                       ARE_R)], 0)

RECURSIVE flush_entries(_, _, _, _)
flush_entries(sx, labels, k, ic_final) ==
  IF k > Len(labels) THEN sx
  ELSE IF labels[k].l_ent_or_ext # ENTRY THEN flush_entries(sx, labels, k + 1, ic_final)
  ELSE LET abs_addr == IF labels[k].l_data_or_ins = DATA
                       THEN ORG_ADDRESS + ic_final + labels[k].l_address
                       ELSE ORG_ADDRESS + labels[k].l_address
           c1 == write_entry(sx, labels[k].l_name, abs_addr)
       IN flush_entries(IF c1.ret # 0 THEN [c1 EXCEPT !.had_error = TRUE] ELSE c1,
                        labels, k + 1, ic_final)

flush_all_entries_skip_first(sx, labels, ic_final) ==
  flush_entries(sx, labels, 2, ic_final)

flush_all_entries(sx, labels, ic_final) == flush_entries(sx, labels, 1, ic_final)

emit_words_no_base(sx, words, count, base) ==
  [sx EXCEPT !.ob = @ \o [k \in 1..count |->
                            ObLine(to_base4_addr(ORG_ADDRESS + k - 1),
                                   to_base4_word(words[k]))]]

(* the two loops of second_pass over the images *)
emit_words(sx, words, count, base) ==
  [sx EXCEPT !.ob = @ \o [k \in 1..count |->
                            ObLine(to_base4_addr(base + k - 1),
                                   to_base4_word(words[k]))]]

(* second_pass lines 33-51: the flag handed in, open_outputs, the header *)
second_pass_open(sx0, ins_set, ic_final, dc_final, p_error, io) ==
  LET c0 == [sx0 EXCEPT !.ins_set = ins_set, !.i = 0, !.had_error = FALSE,
                        !.had_first_pass_error = p_error,
                        !.ob = <<>>, !.ent = <<>>, !.ext = <<>>,
                        !.ent_open = FALSE, !.ext_open = FALSE, !.io = FALSE]
  IN IF io THEN Ret(c0, FATAL_ERROR)
     ELSE Ret([c0 EXCEPT !.ob = <<ObLine(to_base4_addr(ic_final),
                                         to_base4_addr(dc_final))>>], 0)

(* second_pass lines 54-73: one iteration of the loop over the pending *)
(* references                                                          *)
second_pass_patch(sx, label_set, pending_refs, ic_final, io) ==
  LET pen == pending_refs[sx.i + 1]
      lab == find_label(label_set, pen.label_p_name)
      c0 == [sx EXCEPT !.i = @ + 1, !.io = io]
  IN IF lab = 0
     THEN Ret([c0 EXCEPT !.had_error = TRUE, !.io = FALSE,
                         !.diags = Append(@, Diag("p2", pen.line_number_use,
                                                  "undefined label"))], 0)
     ELSE LET c1 == patch_word_with_label(c0, pen.ic_index, label_set[lab], ic_final)
          IN IF c1.ret # 0 THEN Ret(c1, FATAL_ERROR) ELSE Ret([c1 EXCEPT !.io = FALSE], 0)

(* second_pass lines 76-100: the words, the entries, the decision.     *)
(* ret is 0; keep tells whether the outputs stay on disk.               *)
second_pass_finish(sx, dataset, label_set, ic_final, dc_final, io) ==
  LET c0 == emit_words(sx, sx.ins_set, ic_final, ORG_ADDRESS)
      c1 == emit_words(c0, dataset, dc_final, ORG_ADDRESS + ic_final)
      c2 == flush_all_entries([c1 EXCEPT !.io = io], label_set, ic_final)
  IN Ret([c2 EXCEPT !.keep = ~(c2.had_error \/ c2.had_first_pass_error)], 0)

(* ------------------------------------------------------------------ *)
(* The program as a state machine                                      *)
(* ------------------------------------------------------------------ *)
MaxFailAt == 2       \* which allocation request of a line fails

VARIABLES
  status,   \* "run", "exit0", "exit1", "crash"
  pc,       \* where the program is
  nfiles,   \* argc - 1
  file,     \* i of the loop of main, 0 before the loop
  disk,     \* the files of the current basename
  faults,   \* allocation and stream failures still to come
  nread,    \* lines of the .as file read so far
  amk,      \* lines of the .am file read so far
  mx,       \* mcro_exec: macro table and locals
  cx,       \* first_pass: globals, locals and tables
  sx,       \* second_pass: locals and streams
  hist,     \* what has happened (for stating properties)
  scan      \* is_valid_commas: the string and the locals of its loop

vars == <<status, pc, nfiles, file, disk, faults, nread, amk, mx, cx, sx, hist,
          scan>>

InitMx ==
  [inside_macro |-> FALSE, line_num |-> 0, current |-> NullMacro,
   macro_name |-> Uninit, word |-> Uninit, mtab |-> <<>>, error |-> FALSE,
   out |-> <<>>, diags |-> <<>>, ret |-> 0, ctl |-> "continue",
   fail |-> FALSE, nullok |-> FALSE, lost |-> 0]

InitCx ==
  [ic |-> 0, dc |-> 0, error |-> FALSE, was_reg |-> FALSE, line_count |-> 0,
   label_flag |-> FALSE, label |-> "", ins_set |-> <<>>, dataset |-> <<>>,
   label_set |-> <<>>, pending_refs |-> <<>>, diags |-> <<>>,
   nalloc |-> 0, failAt |-> 0, ret |-> 0, ctl |-> "continue"]

InitSx ==
  [ins_set |-> <<>>, i |-> 0, had_error |-> FALSE, had_first_pass_error |-> FALSE,
   ob |-> <<>>, ent |-> <<>>, ext |-> <<>>, ent_open |-> FALSE,
   ext_open |-> FALSE, diags |-> <<>>, io |-> FALSE, keep |-> FALSE, ret |-> 0,
   oblost |-> 0, iowr |-> FALSE]

(* What a directory may hold for a basename before the run *)
NoFiles == [as |-> TRUE, am |-> "absent", ob |-> "absent", ent |-> "absent",
            ext |-> "absent"]
AllStale == [as |-> TRUE, am |-> "stale", ob |-> "stale", ent |-> "stale",
             ext |-> "stale"]
PriorDisks == {NoFiles, AllStale}

(* hist: the basenames started, how each one ended ("noinput",        *)
(* "nooutput", "failed": mcro_exec returned 1; "errors", "assembled":  *)
(* first_pass returned 0 without and with outputs; "fatal"; "crash"),  *)
(* and for the current basename: first_pass entered, second_pass calls,*)
(* the flag passed, the fatal error met                                *)
(* is_valid_commas (data_handling.c 288-329) on a string of characters: *)
(* "," a comma, " " a white-space character, "a" any other character.   *)
(*  rest : the string; i : the index of the loop; expect_comma,         *)
(*  was_space : the locals; error : the global flag; msg : what was     *)
(*  reported; ret : "idle" (not called), "run", "TRUE", "FALSE"         *)
ScanOf(rest, ret) ==
  [rest |-> rest, i |-> 0, expect_comma |-> FALSE, was_space |-> FALSE,
   error |-> FALSE, msg |-> "", ret |-> ret]

IdleScan == ScanOf(<<>>, "idle")

ScanFalse(sc, commas) ==
  [sc EXCEPT !.error = TRUE, !.msg = CommaMessage(commas), !.ret = "FALSE"]

(* lines 294-317: one iteration of the loop *)
is_valid_commas_char_lenient(sc) ==
  LET ch == sc.rest[sc.i + 1]
      nx == [sc EXCEPT !.i = @ + 1]
  IN IF ch = ","
     THEN IF ~sc.expect_comma
          THEN ScanFalse(sc, IF sc.i = 0 THEN "lead" ELSE "multi")
          ELSE [nx EXCEPT !.expect_comma = FALSE]
     ELSE IF ch = " " THEN [nx EXCEPT !.was_space = TRUE]
     ELSE [nx EXCEPT !.expect_comma = TRUE, !.was_space = FALSE]

is_valid_commas_char(sc) ==
  LET ch == sc.rest[sc.i + 1]
      nx == [sc EXCEPT !.i = @ + 1]
  IN IF ch = ","
     THEN IF ~sc.expect_comma
          THEN ScanFalse(sc, IF sc.i = 0 THEN "lead" ELSE "multi")
          ELSE [nx EXCEPT !.expect_comma = FALSE]
     ELSE IF ch = " " THEN [nx EXCEPT !.was_space = TRUE]
     ELSE IF ~sc.expect_comma
     THEN [nx EXCEPT !.expect_comma = TRUE, !.was_space = FALSE]
     ELSE IF sc.was_space THEN ScanFalse(sc, "missing")
     ELSE nx

(* lines 292-293 and 318-328: the empty string, the end of the string *)
is_valid_commas_end(sc) ==
  IF Len(sc.rest) = 0 THEN [sc EXCEPT !.ret = "TRUE"]
  ELSE IF ~sc.expect_comma THEN ScanFalse(sc, "trail")
  ELSE [sc EXCEPT !.ret = "TRUE"]

(* first_pass_utils.c 147-150 *)
RECURSIVE delete_white(_)
delete_white(str) ==
  IF str # <<>> /\ str[1] = " " THEN delete_white(Tail(str)) ELSE str

InitHist ==
  [started |-> {}, outcome |-> <<>>, p1 |-> FALSE, p2calls |-> 0,
   p2flag |-> FALSE, fatal |-> "", src |-> <<>>]

Init ==
  /\ status = "run" /\ pc = "main"
  /\ nfiles \in 0..MaxFiles
  /\ file = 0
  /\ disk = NoFiles
  /\ faults = MaxFaults
  /\ nread = 0 /\ amk = 0
  /\ mx = InitMx /\ cx = InitCx /\ sx = InitSx
  /\ hist = InitHist
  /\ scan = IdleScan

FaultChoice == IF faults > 0 THEN BOOLEAN ELSE {FALSE}
(* which fprintf of write_word_to_ob fails: none, the first, the last *)
ObFailChoice(nwords) ==
  IF faults > 0 THEN {0} \cup ({1, nwords} \cap (1..nwords)) ELSE {0}
FailAtChoice == IF faults > 0 THEN 0..MaxFailAt ELSE {0}
Spend(used) == IF used THEN faults - 1 ELSE faults

(* What uninitialised stack buffers may hold: nothing that matches, or  *)
(* what an earlier call left there                                      *)
GarbageWords == {GarbageName, "mcro", "mcroend"}
GarbageNames == {GarbageName, "m1"}

remove_outputs(d) == [d EXCEPT !.ob = "absent", !.ent = "absent", !.ext = "absent"]

Outcome(h, o) == [h EXCEPT !.outcome = Append(@, o)]

(* fgets has read line l of the .as file *)
ReadLine(h, l) == [h EXCEPT !.src = Append(@, l)]
Fatal(h, why) == Outcome([h EXCEPT !.fatal = why], "fatal")

Halt(st) == status' = st /\ pc' = "halt"

after_first_pass_ignoring(ret) == pc' = "main" /\ UNCHANGED status

(* assembler.c 49-55: what main does with the value of first_pass *)
after_first_pass(ret) ==
  IF ret = FATAL_ERROR THEN Halt("exit1") ELSE pc' = "main" /\ UNCHANGED status

(* assembler.c 27-30: no basename on the command line *)
Usage ==
  /\ pc = "main" /\ nfiles = 0
  /\ Halt("exit1")
  /\ UNCHANGED <<nfiles, file, disk, faults, nread, amk, mx, cx, sx, hist, scan>>

NewFile(h, f) == [InitHist EXCEPT !.started = h.started \cup {f},
                                  !.outcome = h.outcome]

StartFileKeepingError ==
  /\ pc = "main" /\ file < nfiles
  /\ \E d \in PriorDisks, openable \in BOOLEAN, io \in FaultChoice :
       /\ (io => openable)
       /\ file' = file + 1
       /\ nread' = 0 /\ amk' = 0
       /\ mx' = InitMx
       /\ sx' = InitSx
       /\ cx' = [InitCx EXCEPT !.ic = cx.ic, !.dc = cx.dc,
                               !.line_count = cx.line_count,
                               !.was_reg = cx.was_reg, !.error = cx.error]
       /\ faults' = Spend(io)
       /\ IF ~openable \/ io
          THEN /\ disk' = [d EXCEPT !.as = openable]
               /\ pc' = "main"
               /\ hist' = Outcome(NewFile(hist, file + 1),
                                  IF openable THEN "nooutput" ELSE "noinput")
          ELSE /\ disk' = [d EXCEPT !.am = "written"]
               /\ pc' = "mcro"
               /\ hist' = NewFile(hist, file + 1)
  /\ UNCHANGED <<status, nfiles, scan>>

(* assembler.c 32-46 and pre_assembler.c 38-70: the next basename is    *)
(* taken, the macro table initialised, error cleared, the two files     *)
(* opened.  The tables of the earlier basename were freed when its      *)
(* first_pass returned; the counters keep their values.                 *)
StartFile ==
  /\ pc = "main" /\ file < nfiles
  /\ \E d \in PriorDisks, openable \in BOOLEAN, io \in FaultChoice :
       /\ (io => openable)
       /\ file' = file + 1
       /\ nread' = 0 /\ amk' = 0
       /\ mx' = InitMx
       /\ sx' = InitSx
       /\ cx' = [InitCx EXCEPT !.ic = cx.ic, !.dc = cx.dc,
                               !.line_count = cx.line_count,
                               !.was_reg = cx.was_reg, !.error = FALSE]
       /\ faults' = Spend(io)
       /\ IF ~openable \/ io
          THEN /\ disk' = [d EXCEPT !.as = openable]
               /\ pc' = "main"
               /\ hist' = Outcome(NewFile(hist, file + 1),
                                  IF openable THEN "nooutput" ELSE "noinput")
          ELSE /\ disk' = [d EXCEPT !.am = "written"]
               /\ pc' = "mcro"
               /\ hist' = NewFile(hist, file + 1)
  /\ UNCHANGED <<status, nfiles, scan>>

(* pre_assembler.c 72-159: one line of the .as file.  An allocation     *)
(* that fails ends the process (exit(1)); reading a NULL slot of the    *)
(* macro table either ends it abnormally or goes unnoticed.             *)
McroLineUpTo(Lines, max) ==
  /\ pc = "mcro" /\ nread < max
  /\ \E l \in Lines, fail \in FaultChoice, nullok \in BOOLEAN,
        w \in GarbageWords, g \in GarbageNames :
       LET m == mcro_exec_line([mx EXCEPT !.fail = fail, !.nullok = nullok,
                                          !.error = cx.error], l, w, g)
       IN /\ (fail => m.ctl = "exit")
          /\ mx' = m
          /\ cx' = [cx EXCEPT !.error = m.error]
          /\ nread' = nread + 1
          /\ faults' = Spend(fail)
          /\ IF m.ctl = "exit"
             THEN /\ Halt("exit1")
                  /\ hist' = Fatal(ReadLine(hist, l), "alloc")
             ELSE IF m.ctl = "null"
             THEN /\ Halt("crash")
                  /\ hist' = Outcome(ReadLine(hist, l), "crash")
             ELSE /\ hist' = ReadLine(hist, l)
                  /\ UNCHANGED <<status, pc>>
  /\ UNCHANGED <<nfiles, file, disk, amk, sx, scan>>

McroLine(Lines) == McroLineUpTo(Lines, MaxSrcLines)

(* pre_assembler.c 161-175 and assembler.c 42-46: end of the .as file   *)
McroEof ==
  /\ pc = "mcro"
  /\ \E nullok \in BOOLEAN :
       LET m == mcro_exec_eof([mx EXCEPT !.error = cx.error])
       IN /\ mx' = m
          /\ cx' = [cx EXCEPT !.error = m.error]
          /\ IF m.ret = 0
             THEN /\ pc' = "p1open"
                  /\ UNCHANGED <<status, disk, hist>>
             ELSE /\ disk' = [disk EXCEPT !.am = "absent"]
                  /\ IF FreeNullRead(m.mtab) /\ ~nullok
                     THEN /\ Halt("crash")
                          /\ hist' = Outcome(hist, "crash")
                     ELSE /\ pc' = "main"
                          /\ hist' = Outcome(hist, "failed")
                          /\ UNCHANGED status
  /\ UNCHANGED <<nfiles, file, faults, nread, amk, sx, scan>>

(* first_pass.c 83-98: the counters are reset, the .am file is opened   *)
FirstPassOpen ==
  /\ pc = "p1open"
  /\ \E io \in FaultChoice :
       /\ cx' = [InitCx EXCEPT !.error = cx.error]
       /\ faults' = Spend(io)
       /\ IF io
          THEN /\ after_first_pass(FATAL_ERROR)
               /\ hist' = Fatal([hist EXCEPT !.p1 = TRUE], "open")
          ELSE /\ pc' = "p1"
               /\ hist' = [hist EXCEPT !.p1 = TRUE]
               /\ UNCHANGED status
  /\ UNCHANGED <<nfiles, file, disk, nread, amk, mx, sx, scan>>

(* first_pass.c 100-327: one line of the .am file *)
FirstPassLine ==
  /\ pc = "p1" /\ amk < Len(mx.out)
  /\ \E f \in FailAtChoice :
       LET c == first_pass_line([cx EXCEPT !.failAt = f], mx.out[amk + 1], mx.mtab)
           failed == f > 0 /\ c.nalloc >= f
       IN /\ (f > 0 => failed)
          /\ cx' = c
          /\ amk' = amk + 1
          /\ faults' = Spend(failed)
          /\ IF c.ctl = "fatal"
             THEN /\ after_first_pass(FATAL_ERROR)
                  /\ hist' = Fatal(hist, IF failed THEN "alloc" ELSE "capacity")
             ELSE UNCHANGED <<status, pc, hist>>
  /\ UNCHANGED <<nfiles, file, disk, nread, mx, sx, scan>>

(* first_pass.c 329-334: entries never defined *)
RECURSIVE unknown_entries(_, _)
unknown_entries(cx0, k) ==
  IF k > Len(cx0.label_set) THEN cx0
  ELSE IF IsUnknown(cx0.label_set[k])
  THEN unknown_entries(
         [SetError(cx0) EXCEPT !.diags =
            Append(@, Diag("p1", cx0.label_set[k].l_address,
               "A label was declared internal and was not defined in this file"))],
         k + 1)
  ELSE unknown_entries(cx0, k + 1)

(* first_pass.c 329-344 and second_pass.c 25-51: end of the .am file,   *)
(* the second pass is called and opens its output                       *)
FirstPassEof ==
  /\ pc = "p1" /\ amk = Len(mx.out)
  /\ \E io \in FaultChoice :
       LET c == unknown_entries(cx, 1)
           s == second_pass_open(sx, c.ins_set, c.ic, c.dc, c.error, io)
           h == [hist EXCEPT !.p2calls = @ + 1, !.p2flag = c.error]
       IN /\ cx' = c
          /\ sx' = s
          /\ faults' = Spend(io)
          /\ IF s.ret # 0
             THEN /\ disk' = remove_outputs(disk)
                  /\ after_first_pass(FATAL_ERROR)
                  /\ hist' = Fatal(h, "io")
             ELSE /\ disk' = [disk EXCEPT !.ob = "written"]
                  /\ pc' = "p2"
                  /\ hist' = h
                  /\ UNCHANGED status
  /\ UNCHANGED <<nfiles, file, nread, amk, mx, scan>>

(* second_pass.c 54-73: one pending reference *)
SecondPassPatch ==
  /\ pc = "p2" /\ sx.i < Len(cx.pending_refs)
  /\ \E io \in FaultChoice, wr \in BOOLEAN :
       LET s == second_pass_patch([sx EXCEPT !.iowr = wr], cx.label_set,
                                  cx.pending_refs, cx.ic, io)
       IN /\ (io => s.ret # 0) /\ (wr => io)
          /\ sx' = s
          /\ faults' = Spend(io)
          /\ IF s.ret # 0
             THEN /\ disk' = remove_outputs(disk)
                  /\ after_first_pass(FATAL_ERROR)
                  /\ hist' = Fatal(hist, "io")
             ELSE /\ disk' = [disk EXCEPT !.ext = IF s.ext_open THEN "written" ELSE @]
                  /\ UNCHANGED <<status, pc, hist>>
  /\ UNCHANGED <<nfiles, file, nread, amk, mx, cx, scan>>

(* second_pass.c 76-100, first_pass.c 346-347, assembler.c 55: the      *)
(* words and entries are written, the outputs kept or removed.  The     *)
(* value of fprintf in write_word_to_ob is not looked at: a write that  *)
(* fails changes nothing in the pass                                    *)
SecondPassFinish ==
  /\ pc = "p2" /\ sx.i = Len(cx.pending_refs)
  /\ \E io \in FaultChoice, wr \in BOOLEAN, lost \in ObFailChoice(cx.ic + cx.dc) :
       LET s == second_pass_finish([sx EXCEPT !.oblost = lost, !.iowr = wr], cx.dataset,
                                   cx.label_set, cx.ic, cx.dc, io)
           spent == (IF io THEN 1 ELSE 0) + (IF lost > 0 THEN 1 ELSE 0)
       IN /\ (io => ~s.io) /\ (wr => io)
          /\ spent <= faults
          /\ sx' = [s EXCEPT !.io = FALSE]
          /\ faults' = faults - spent
          /\ disk' = IF s.keep
                     THEN [disk EXCEPT !.ent = IF s.ent_open THEN "written" ELSE @]
                     ELSE remove_outputs(disk)
          /\ after_first_pass(s.ret)
          /\ hist' = Outcome(hist, IF s.keep THEN "assembled" ELSE "errors")
  /\ UNCHANGED <<nfiles, file, nread, amk, mx, cx, scan>>

(* assembler.c 57: every basename has been handled *)
Done ==
  /\ pc = "main" /\ nfiles > 0 /\ file = nfiles
  /\ Halt("exit0")
  /\ UNCHANGED <<nfiles, file, disk, faults, nread, amk, mx, cx, sx, hist, scan>>

(* ------------------------------------------------------------------ *)
(* Source lines the specifications draw from                           *)
(* ------------------------------------------------------------------ *)
BigMat == MatDef(TRUE, 12, 14)      \* 168 cells: more than the memory holds
WideMat == MatDef(TRUE, 11, 14)     \* 154 cells
RegIndex == MatDef(TRUE, 1, 2)      \* [r1][r2]

StopLine == SrcText(Ins("stop", "ok", <<>>))
JmpLine(name) == SrcText(Ins("jmp", "ok", <<OpDir(name)>>))
CallLine(name) == SrcText(Ins(name, "ok", <<>>))
MatLine(md) == SrcText(Mat(md, "ok", <<>>))

(* Lines for the driver and the expander: a valid line, a reference to  *)
(* an undefined label, a macro call or unknown command, a matrix larger *)
(* than the memory, a macro opening and a macro closing                 *)
DriverLines ==
  {StopLine, JmpLine("X"), CallLine("m1"), MatLine(BigMat),
   SrcMcro(2, "m1"), SrcMcroend}

(* Lines for the two passes: a run of 255 empty lines, references,     *)
(* definitions, declarations of                                        *)
(* two names, register pairs, matrix operands, a matrix that nearly     *)
(* fills memory                                                         *)
CodeLines ==
  {JmpLine("L"),
   SrcText(Labelled("L", Data("ok", <<Num(7)>>))),
   SrcText(Labelled("L", Data("lead", <<>>))),
   SrcText(Extern("L", FALSE)),
   SrcText(Entry("L", FALSE)),
   SrcText(Entry("K", FALSE)),
   SrcText(Labelled("K", Data("ok", <<Num(7)>>))),
   SrcNl(UCHAR_MOD - 1),
   SrcText(Ins("mov", "ok", <<OpReg(1), OpReg(2)>>)),
   SrcText(Ins("cmp", "ok", <<OpMat("L", "ok", RegIndex), OpImm(Num(-1))>>)),
   MatLine(WideMat)}

Next ==
  \/ Usage
  \/ StartFile
  \/ McroLine(DriverLines)
  \/ McroEof
  \/ FirstPassOpen
  \/ FirstPassLine
  \/ FirstPassEof
  \/ SecondPassPatch
  \/ SecondPassFinish
  \/ Done

Spec == Init /\ [][Next]_vars

(* One basename, lines of the two passes *)
InitCode == Init /\ nfiles = 1

NextCode ==
  \/ StartFile
  \/ McroLine(CodeLines)
  \/ McroEof
  \/ FirstPassOpen
  \/ FirstPassLine
  \/ FirstPassEof
  \/ SecondPassPatch
  \/ SecondPassFinish
  \/ Done

SpecCode == InitCode /\ [][NextCode]_vars

(* One basename, lines of the expander: a plain line, a call of m1, a  *)
(* macro opening, a rejected macro opening, a macro closing, a line of *)
(* white space, an empty line, a comment line                          *)
MaxMcroLines == 4

McroLines ==
  {JmpLine("X"), CallLine("m1"), SrcMcro(2, "m1"), SrcMcro(1, ""), SrcMcroend,
   SrcWs, SrcNl(1), SrcComment}

NextMcro ==
  \/ StartFile
  \/ McroLineUpTo(McroLines, MaxMcroLines)
  \/ McroEof
  \/ FirstPassOpen
  \/ FirstPassLine
  \/ FirstPassEof
  \/ SecondPassPatch
  \/ SecondPassFinish
  \/ Done

SpecMcro == InitCode /\ [][NextMcro]_vars

(* One basename, lines of code: every command with every class of      *)
(* operand in each position, and .mat directives                        *)
MaxInsLines == 2

SrcOperands == {OpImm(Num(-1)), OpDir("X"), OpMat("X", "ok", RegIndex), OpReg(1)}
DstOperands == {OpImm(Num(-1)), OpDir("X"), OpMat("X", "ok", RegIndex), OpReg(2)}

(* .mat directives: fewer values than cells, as many, more, no cell,   *)
(* and dimensions whose product does not fit an int                    *)
SquareMat == MatDef(TRUE, 2, 2)
HugeMat == MatDef(TRUE, 46341, 46341)

MatLines ==
  {SrcText(Mat(SquareMat, "ok", <<Num(5)>>)),
   SrcText(Mat(SquareMat, "ok", <<Num(5), Num(6), Num(7), Num(8)>>)),
   SrcText(Mat(SquareMat, "ok", <<Num(5), Num(6), Num(7), Num(8), Num(9)>>)),
   SrcText(Mat(MatDef(TRUE, 0, 3), "ok", <<>>)),
   SrcText(Mat(HugeMat, "ok", <<>>))}

(* definitions of the name the operands refer to: on a matrix whose     *)
(* cell count overflows, on an instruction                               *)
LabelledLines ==
  {SrcText(Labelled("X", Mat(HugeMat, "ok", <<>>))),
   SrcText(Labelled("X", Ins("stop", "ok", <<>>)))}

InsLines ==
  {SrcText(Ins(c, "ok", <<s, d>>)) : c \in TwoPrmCmds, s \in SrcOperands,
                                     d \in DstOperands}
    \cup {SrcText(Ins(c, "ok", <<d>>)) : c \in OnePrmCmds, d \in DstOperands}
    \cup {SrcText(Ins(c, "ok", <<>>)) : c \in NoPrmCmds}
    \cup MatLines \cup LabelledLines

NextIns ==
  \/ StartFile
  \/ McroLineUpTo(InsLines, MaxInsLines)
  \/ McroEof
  \/ FirstPassOpen
  \/ FirstPassLine
  \/ FirstPassEof
  \/ SecondPassPatch
  \/ SecondPassFinish
  \/ Done

(* One basename, no allocation or stream failure *)
InitIns ==
  /\ status = "run" /\ pc = "main"
  /\ nfiles = 1
  /\ file = 0
  /\ disk = NoFiles
  /\ faults = 0
  /\ nread = 0 /\ amk = 0
  /\ mx = InitMx /\ cx = InitCx /\ sx = InitSx
  /\ hist = InitHist
  /\ scan = IdleScan

SpecIns == InitIns /\ [][NextIns]_vars

(* is_valid_commas on every string of up to MaxRestLen characters, as   *)
(* its callers hand it over: behind delete_white                        *)
MaxRestLen == 5

CommaChars == {",", " ", "a"}

RestStrings == UNION {[1..n -> CommaChars] : n \in 0..MaxRestLen}

InitCommas ==
  /\ status = "run" /\ pc = "main"
  /\ nfiles = 1
  /\ file = 0
  /\ disk = NoFiles
  /\ faults = 0
  /\ nread = 0 /\ amk = 0
  /\ mx = InitMx /\ cx = InitCx /\ sx = InitSx
  /\ hist = InitHist
  /\ \E str \in RestStrings : scan = ScanOf(delete_white(str), "run")

ScanChar ==
  /\ scan.ret = "run" /\ scan.i < Len(scan.rest)
  /\ scan' = is_valid_commas_char(scan)
  /\ UNCHANGED <<status, pc, nfiles, file, disk, faults, nread, amk, mx, cx, sx, hist>>

ScanEnd ==
  /\ scan.ret = "run" /\ scan.i = Len(scan.rest)
  /\ scan' = is_valid_commas_end(scan)
  /\ UNCHANGED <<status, pc, nfiles, file, disk, faults, nread, amk, mx, cx, sx, hist>>

NextCommas ==
  \/ ScanChar
  \/ ScanEnd

SpecCommas == InitCommas /\ [][NextCommas]_vars

(* ------------------------------------------------------------------ *)
(* Properties                                                          *)
(* ------------------------------------------------------------------ *)
LastOutcome == IF hist.outcome = <<>> THEN "" ELSE hist.outcome[Len(hist.outcome)]

(* The current basename has been dealt with *)
Finished == pc \in {"main", "halt"} /\ file > 0 /\ Len(hist.outcome) = file

NoOutputs == disk.ob = "absent" /\ disk.ent = "absent" /\ disk.ext = "absent"

ExpanderFailures == {"noinput", "nooutput", "failed"}

FatalMessages ==
  {"There are no free cells in memory", "Memory reallocation failed",
   "Dynamic allocation failed"}

(* Pass 1 reported an error of the source text *)
P1ContentError == \E k \in 1..Len(cx.diags) : cx.diags[k].msg \notin FatalMessages

P1Reported == \E k \in 1..Len(cx.diags) : cx.diags[k].ph = "p1"

AllBasenames == 1..nfiles

(* C1 (as stated): once the passes have finished with a basename, if a *)
(* non-fatal error was flagged in Pass 1 or in Pass 2 then none of     *)
(* .ob, .ent, .ext exists.                                             *)
C1_NoOutputsAfterError ==
  (Finished /\ hist.p1 /\ (P1ContentError \/ sx.had_error)) => NoOutputs

(* C2 (as stated): whenever mcro_exec has returned failure the .am is  *)
(* not on disk, and once a violation has been reported and the scan is *)
(* over the .am is not on disk.                                        *)
C2_FailureRemovesAm ==
  /\ (Finished /\ LastOutcome \in ExpanderFailures) => disk.am = "absent"
  /\ (file > 0 /\ pc # "mcro" /\ mx.diags # <<>>) => disk.am = "absent"

(* C3 (amended): a basename is left unprocessed only when an earlier   *)
(* one ended the process (fatal error, or abnormal termination); after *)
(* any other outcome the next basename is taken, and it starts from    *)
(* reset state: error clear and an empty macro table when the expander *)
(* starts, zero counters and empty tables when Pass 1 starts.          *)
C3_LaterBasenamesProcessed ==
  /\ status = "exit0" => hist.started = AllBasenames
  /\ (pc = "halt" /\ hist.started # AllBasenames) => LastOutcome \in {"fatal", "crash"}
  /\ (pc = "mcro" /\ nread = 0) =>
        ~cx.error /\ mx.mtab = <<>> /\ ~mx.inside_macro /\ mx.out = <<>>
  /\ (pc = "p1" /\ amk = 0) =>
        /\ cx.ic = 0 /\ cx.dc = 0 /\ cx.line_count = 0 /\ ~cx.was_reg /\ ~cx.error
        /\ cx.label_set = <<>> /\ cx.pending_refs = <<>>
        /\ cx.ins_set = <<>> /\ cx.dataset = <<>>

(* C3 witness: Pass 1 starts on the second basename after the first    *)
(* one was rejected for errors of its source                           *)
C3_SecondAfterErrors ==
  file = 2 /\ pc = "p1" /\ amk = 0 /\ hist.outcome = <<"errors">>

(* C3 (as stated): every basename on the command line is processed,    *)
(* whatever error an earlier one hit                                   *)
C3_EveryBasenameProcessed == pc = "halt" => hist.started = AllBasenames

(* C4 (amended): exit status 1 with no basename; a fatal error         *)
(* (capacity, allocation failure, .am that cannot be read, output that *)
(* cannot be written) ends the run at once with status 1; a basename   *)
(* whose .as cannot be opened or whose .am cannot be created is        *)
(* skipped like any expander failure; status 0 is returned exactly     *)
(* when the loop has gone through every basename without a fatal error.*)
C4_ExitStatus ==
  /\ (pc = "halt" /\ nfiles = 0) => status = "exit1"
  /\ \A k \in 1..Len(hist.outcome) :
        hist.outcome[k] = "fatal" =>
           status = "exit1" /\ pc = "halt" /\ k = Len(hist.outcome)
  /\ status = "exit1" => (nfiles = 0 \/ LastOutcome = "fatal")
  /\ status = "exit0" <=>
        /\ pc = "halt" /\ nfiles > 0 /\ Len(hist.outcome) = nfiles
        /\ \A k \in 1..nfiles :
              hist.outcome[k] \in ExpanderFailures \cup {"errors", "assembled"}

(* C4 witness: the run ends with status 0 although the .as file of a   *)
(* basename could not be opened                                        *)
C4_ExitZeroAfterSkipped ==
  status = "exit0" /\ \E k \in 1..Len(hist.outcome) : hist.outcome[k] = "noinput"

(* C4 (as stated): a file that cannot be opened is a fatal error too:  *)
(* status 1 and no later basename                                      *)
C4_OpenFailureIsFatal ==
  /\ (pc = "halt" /\ nfiles = 0) => status = "exit1"
  /\ \A k \in 1..Len(hist.outcome) :
        hist.outcome[k] \in {"fatal", "noinput", "nooutput"} =>
           status = "exit1" /\ pc = "halt" /\ k = Len(hist.outcome)
  /\ status = "exit0" => (pc = "halt" /\ Len(hist.outcome) = nfiles)

C6_Capacity ==
  pc \in {"p1", "p2"} =>
     /\ cx.ic + cx.dc <= MEM_AVAIL_WORDS
     /\ Len(cx.ins_set) = cx.ic
     /\ Len(cx.dataset) = cx.dc

(* C6 witness: the memory is full and lines remain to be read *)
C6_MemoryFull ==
  pc = "p1" /\ cx.ic + cx.dc = MEM_AVAIL_WORDS /\ cx.ic > 0 /\ cx.dc > 0
            /\ amk < Len(mx.out)

(* C7 (as stated): an emit while IC + DC = 156 ends the run with       *)
(* status 1, appends no word, does not call Pass 2, and no .ob, .ent   *)
(* or .ext exists afterwards.                                          *)
C7_CapacityFatal ==
  hist.fatal = "capacity" =>
     /\ status = "exit1"
     /\ hist.p2calls = 0
     /\ cx.ic + cx.dc = MEM_AVAIL_WORDS
     /\ NoOutputs

(* The Symbol Table slot a reference resolves to: the first one with   *)
(* its name, 0 when there is none                                      *)
SlotOf(pen) ==
  First({k \in 1..Len(cx.label_set) : cx.label_set[k].l_name = pen.label_p_name})

IsExternalRef(pen) ==
  SlotOf(pen) # 0 /\ cx.label_set[SlotOf(pen)].l_ent_or_ext = EXTERNAL

(* The absolute address section 3 gives a symbol *)
AbsOf(lab) ==
  IF lab.l_data_or_ins = DATA THEN 100 + cx.ic + lab.l_address
  ELSE 100 + lab.l_address

(* The operand word Pass 2 must leave for a reference to slot lab *)
PatchedWord(lab) ==
  IF lab.l_ent_or_ext = EXTERNAL THEN 1 ELSE ((AbsOf(lab) % 256) * 4) + 2

C8_Step ==
  LET pen == cx.pending_refs[sx.i + 1]
      k == pen.ic_index + 1
      slot == SlotOf(pen)
      lab == cx.label_set[slot]
  IN /\ \A j \in 1..Len(sx.ins_set) : j # k => sx'.ins_set[j] = sx.ins_set[j]
     /\ Len(sx'.ins_set) = Len(sx.ins_set)
     /\ (slot # 0 /\ (lab.l_ent_or_ext = EXTERNAL \/ lab.l_data_or_ins \in {DATA, INS})) =>
           /\ sx'.ins_set[k] = PatchedWord(lab)
           /\ (lab.l_ent_or_ext # EXTERNAL /\ AbsOf(lab) > 255) => sx'.had_error

(* C8: every step of Pass 2 that resolves a pending reference whose    *)
(* label is in the Symbol Table leaves in the operand word 1 for an    *)
(* external symbol and ((abs & 0xFF) << 2) | 2 otherwise, abs being    *)
(* 100 + offset (instruction) or 100 + IC_final + offset (data), sets  *)
(* the error flag when abs > 255, and changes no other word.           *)
C8_PatchedWords ==
  [][(pc = "p2" /\ pc' = "p2" /\ sx'.i = sx.i + 1) => C8_Step]_vars

(* C8 witness: a reference to a data symbol whose address is above 255 *)
(* has been patched with the low 8 bits and the error flag is set      *)
C8_OverflowPatched ==
  /\ pc = "p2" /\ sx.had_error
  /\ \E n \in 1..sx.i :
        LET pen == cx.pending_refs[n]
            lab == cx.label_set[SlotOf(pen)]
        IN /\ SlotOf(pen) # 0
           /\ lab.l_ent_or_ext # EXTERNAL /\ lab.l_data_or_ins = DATA
           /\ AbsOf(lab) > 255
           /\ sx.ins_set[pen.ic_index + 1] = PatchedWord(lab)

(* What <base>.ext holds: what this run wrote, or what an earlier run  *)
(* left there                                                           *)
StaleText == <<NameLine("?", <<"?">>)>>

ExtOnDisk ==
  IF disk.ext = "written" THEN sx.ext
  ELSE IF disk.ext = "stale" THEN StaleText ELSE <<>>

ExpectedExt ==
  LET refs == SelectSeq(cx.pending_refs, IsExternalRef)
  IN [n \in 1..Len(refs) |->
        NameLine(refs[n].label_p_name, to_base4_addr(100 + refs[n].ic_index))]

(* C9 (as stated): after an error-free run <base>.ext holds exactly    *)
(* one line per pending reference to an external symbol, in the order  *)
(* of the references, with the base-4 address of the operand word; and *)
(* the file is opened only once such a reference has been resolved.    *)
C9_ExtContent ==
  /\ (Finished /\ LastOutcome = "assembled") => ExtOnDisk = ExpectedExt
  /\ (pc = "p2" /\ sx.ext_open) =>
        \E n \in 1..sx.i : IsExternalRef(cx.pending_refs[n])

(* C9, the file this run writes: the lines of the external references  *)
(* resolved so far, in order; the file is open iff there is one        *)
C9_ExtWritten ==
  pc = "p2" \/ (Finished /\ LastOutcome = "assembled") =>
     LET done == SelectSeq(SubSeq(cx.pending_refs, 1, sx.i), IsExternalRef)
     IN /\ sx.ext = [n \in 1..Len(done) |->
                       NameLine(done[n].label_p_name,
                                to_base4_addr(100 + done[n].ic_index))]
        /\ sx.ext_open <=> done # <<>>
        /\ sx.ext_open => disk.ext = "written"

PendingAt(k) == \E n \in 1..Len(cx.pending_refs) : cx.pending_refs[n].ic_index = k - 1

(* C10: a word of the instruction image that is not the operand word   *)
(* of a pending reference has ARE bits 00 at every moment of the two   *)
(* passes; in the .ob file that is kept, the last base-4 digit of an   *)
(* instruction word is b (E) or c (R) iff a pending reference records  *)
(* its offset, and a (00) otherwise.                                   *)
C10_AreBits ==
  /\ pc = "p1" =>
        \A k \in 1..Len(cx.ins_set) : ~PendingAt(k) => cx.ins_set[k] % 4 = ARE_A
  /\ (pc = "p2" \/ (Finished /\ hist.p2calls = 1)) =>
        \A k \in 1..Len(sx.ins_set) : ~PendingAt(k) => sx.ins_set[k] % 4 = ARE_A
  /\ (Finished /\ LastOutcome = "assembled") =>
        /\ disk.ob = "written"
        /\ Len(sx.ob) >= 1 + cx.ic
        /\ \A k \in 1..cx.ic :
              LET digit == sx.ob[1 + k].word[WORD_BASE4_DIGITS]
              IN IF PendingAt(k) THEN digit \in {"b", "c"} ELSE digit = "a"

(* C10 witness: a kept .ob whose instruction words include a           *)
(* relocatable operand word, a title word, an index word and a         *)
(* negative immediate                                                  *)
C10_KeptObject ==
  /\ Finished /\ LastOutcome = "assembled" /\ cx.ic >= 4
  /\ \E k \in 1..cx.ic : PendingAt(k) /\ sx.ob[1 + k].word[WORD_BASE4_DIGITS] = "c"
  /\ \E k \in 1..cx.ic : ~PendingAt(k) /\ sx.ins_set[k] < 0

(* The number a string of base-4 digits (a, b, c, d) stands for *)
DigitValue(ch) == CHOOSE d \in 0..3 : QUAD_DIGITS[d + 1] = ch

RECURSIVE Base4Value(_)
Base4Value(digits) ==
  IF digits = <<>> THEN 0
  ELSE 4 * Base4Value(SubSeq(digits, 1, Len(digits) - 1))
       + DigitValue(digits[Len(digits)])

(* second_pass has emitted the words of the current basename *)
Emitted == Finished /\ hist.p2calls = 1 /\ hist.fatal # "io"

(* C11: what second_pass prints to <base>.ob is a header carrying      *)
(* IC_final and DC_final, then exactly IC_final + DC_final lines; line *)
(* k (from 0) carries address 100 + k in 4 base-4 digits; the first    *)
(* IC_final lines carry the instruction words in image order, the next *)
(* DC_final lines the data words in image order, each as the 5 base-4  *)
(* digits of its low 10 bits.                                          *)
C11_ObjectBody ==
  /\ (pc = "p2" \/ Emitted) =>
        /\ Len(sx.ob) >= 1
        /\ Len(sx.ob[1].addr) = ADDR_BASE4_DIGITS /\ Base4Value(sx.ob[1].addr) = cx.ic
        /\ Len(sx.ob[1].word) = ADDR_BASE4_DIGITS /\ Base4Value(sx.ob[1].word) = cx.dc
  /\ pc = "p2" => Len(sx.ob) = 1
  /\ Emitted =>
        /\ Len(sx.ob) = 1 + cx.ic + cx.dc
        /\ \A k \in 0..(cx.ic + cx.dc - 1) :
              LET line == sx.ob[k + 2]
                  word == IF k < cx.ic THEN sx.ins_set[k + 1]
                          ELSE cx.dataset[k - cx.ic + 1]
              IN /\ Len(line.addr) = 4 /\ Base4Value(line.addr) = 100 + k
                 /\ Len(line.word) = 5 /\ Base4Value(line.word) = word % 1024

(* C11 witness: a kept .ob with instruction words, data words and a    *)
(* negative word                                                       *)
C11_BothImagesEmitted ==
  /\ Finished /\ LastOutcome = "assembled" /\ disk.ob = "written"
  /\ cx.ic >= 2 /\ cx.dc >= 1
  /\ \E k \in 1..cx.ic : sx.ins_set[k] < 0
  /\ sx.oblost = 0

IsEntrySlot(lab) == lab.l_ent_or_ext = ENTRY

IsDefinedEntry(lab) == IsEntrySlot(lab) /\ lab.l_data_or_ins # UNKNOWN_LABEL_TYPE

(* The .ent line of a slot: its name and the 4 base-4 digits of its    *)
(* absolute address (100 + IC_final + address for kind data, 100 +     *)
(* address otherwise)                                                  *)
IsEntLine(line, lab) ==
  /\ line.name = lab.l_name
  /\ Len(line.addr) = 4
  /\ Base4Value(line.addr) = AbsOf(lab) % 256

IsEntOf(lines, slots) ==
  /\ Len(lines) = Len(slots)
  /\ \A n \in 1..Len(slots) : IsEntLine(lines[n], slots[n])

(* C13 (amended): entries are emitted after every pending reference    *)
(* has been resolved; write_entry is called once for each slot with    *)
(* linkage entry, in insertion order, whatever the kind of the slot    *)
(* (an unknown slot gets 100 + the line number its address field       *)
(* holds); every call that succeeds appends the line of its slot; a    *)
(* line is missing only when its write failed, and then no output is   *)
(* kept; .ent is opened only when there is such a slot; when there is  *)
(* an unknown slot no output is kept.                                  *)
C13_EntryEmission ==
  /\ pc = "p2" => sx.ent = <<>> /\ ~sx.ent_open
  /\ Emitted =>
        LET slots == SelectSeq(cx.label_set, IsEntrySlot)
        IN /\ sx.i = Len(cx.pending_refs)
           /\ \/ IsEntOf(sx.ent, slots)
              \/ /\ slots # <<>> /\ IsEntOf(sx.ent, Tail(slots))
                 /\ sx.had_error /\ NoOutputs
           /\ sx.ent_open => slots # <<>>
           /\ (\E n \in 1..Len(slots) : IsUnknown(slots[n])) => NoOutputs

(* C13 witness: two entry lines have been written, one of them for a   *)
(* slot whose kind is unknown                                          *)
C13_UnknownEntryWritten ==
  /\ Emitted /\ Len(sx.ent) = 2
  /\ \E n \in 1..Len(cx.label_set) :
        IsEntrySlot(cx.label_set[n]) /\ IsUnknown(cx.label_set[n])
  /\ \E n \in 1..Len(cx.label_set) : IsDefinedEntry(cx.label_set[n])

(* C13 (as stated): exactly one line for each slot with linkage entry  *)
(* whose kind is not unknown, none for a slot whose kind is unknown,   *)
(* and the file is opened only if a line is written.                   *)
C13_DefinedEntriesOnly ==
  Emitted =>
     /\ IsEntOf(sx.ent, SelectSeq(cx.label_set, IsDefinedEntry))
     /\ sx.ent_open => sx.ent # <<>>

UndefinedEntryMessage ==
  "A label was declared internal and was not defined in this file"

NonDecreasing(d) == \A i, j \in 1..Len(d) : i <= j => d[i].ln <= d[j].ln

(* Pass 1 diagnostics: those of the line loop are in line order, and   *)
(* the undefined-entry diagnostics come after all of them              *)
LoopThenEntries(d) ==
  /\ NonDecreasing(SelectSeq(d, LAMBDA x : x.msg # UndefinedEntryMessage))
  /\ \A i, j \in 1..Len(d) :
        (d[i].msg = UndefinedEntryMessage /\ d[j].msg # UndefinedEntryMessage) => j < i

(* A step keeps the order of the passes: the expander reports only     *)
(* while neither pass has reported for the file, Pass 1 only while     *)
(* Pass 2 has not, and what has been reported stays                    *)
PassOrderStep ==
  /\ (mx'.diags # mx.diags /\ mx'.diags # <<>>) => cx'.diags = <<>> /\ sx'.diags = <<>>
  /\ (cx'.diags # cx.diags /\ cx'.diags # <<>>) =>
        /\ sx'.diags = <<>>
        /\ mx'.diags = mx.diags
        /\ Len(cx'.diags) > Len(cx.diags)
        /\ SubSeq(cx'.diags, 1, Len(cx.diags)) = cx.diags
  /\ (sx'.diags # sx.diags /\ sx'.diags # <<>>) =>
        /\ cx'.diags = cx.diags /\ mx'.diags = mx.diags
        /\ SubSeq(sx'.diags, 1, Len(sx.diags)) = sx.diags

Pass2FileFailure ==
  /\ faults' < faults
  /\ \/ pc = "p1" /\ hist'.p2calls > hist.p2calls
     \/ pc = "p2"

(* C15: in Pass 2 a failure of any file operation makes second_pass    *)
(* return the fatal code and leaves none of .ob, .ent, .ext on disk.   *)
C15_Pass2IoFatal ==
  [][Pass2FileFailure =>
       /\ sx'.ret = FATAL_ERROR
       /\ disk'.ob = "absent" /\ disk'.ent = "absent" /\ disk'.ext = "absent"]_vars

(* Macro objects created by create_macro that free_all_macros cannot   *)
(* reach: those whose pointer was overwritten by a later mcro line and *)
(* the one still held in current                                       *)
UnreachableMacros == mx.lost + (IF mx.current.null THEN 0 ELSE 1)

(* C16: when the processing of a file ends, on every exit path, every  *)
(* resource acquired for the file has been released; here: every macro *)
(* object created by the expander is in the table free_all_macros      *)
(* walks, whenever mcro_exec has returned to main.                     *)
C16_AllReleased ==
  (Finished /\ mx.ctl \notin {"exit", "null"}) => UnreachableMacros = 0

(* The line the step reads off the .as file *)
LineRead == hist'.src[Len(hist'.src)]

(* The step reads a blank line (empty, or white space only) outside a  *)
(* macro block, word having been written by an earlier sscanf          *)
BlankRead ==
  /\ Len(hist'.src) = Len(hist.src) + 1
  /\ LineRead.k \in {"nl", "ws"}
  /\ ~mx.inside_macro
  /\ mx.word # Uninit

(* C17: every blank line of the source outside a macro block is copied *)
(* to the .am file unchanged and produces no diagnostic, whatever line *)
(* precedes it.                                                        *)
C17_BlankCopied ==
  [][BlankRead => /\ mx'.out = Append(mx.out, LineRead.st)
                  /\ mx'.diags = mx.diags]_vars

(* The lines read since the mcro line that opened the current block *)
RECURSIVE BlockStart(_, _)
BlockStart(src, k) ==
  IF k = 0 THEN 0
  ELSE IF src[k].k = "mcro" THEN k
  ELSE BlockStart(src, k - 1)

BlockText(src) ==
  LET b == BlockStart(src, Len(src))
  IN [i \in 1..(Len(src) - b) |-> src[b + i].st]

(* A block opened by an accepted mcro line is open and every line read *)
(* since is a body line (no keyword line and no white-space line,      *)
(* which the expander takes for the keyword before it)                 *)
InBlock ==
  /\ pc = "mcro" /\ mx.inside_macro /\ ~mx.current.null
  /\ mx.diags = <<>>
  /\ BlockStart(hist.src, Len(hist.src)) > 0
  /\ \A i \in (BlockStart(hist.src, Len(hist.src)) + 1)..Len(hist.src) :
        hist.src[i].k \in {"text", "nl", "comment"}

(* C18: every source line between a mcro line and its mcroend,         *)
(* comment lines and blank lines included, is appended to the macro's  *)
(* captured lines verbatim and is not written to the .am file at the   *)
(* definition site.                                                    *)
C18_BodyCaptured ==
  InBlock => mx.current.lines = BlockText(hist.src)

(* C19: in every reachable state of the expander, after any sequence   *)
(* of source lines (rejected mcro lines included), no two macros in    *)
(* the Macro Table have the same name (stated for the names that were  *)
(* read off a mcro line).                                              *)
C19_UniqueMacroNames ==
  \A i, j \in 1..Len(mx.mtab) :
     (i # j /\ ~mx.mtab[i].null /\ ~mx.mtab[j].null
            /\ mx.mtab[i].name # GarbageName) =>
        mx.mtab[i].name # mx.mtab[j].name

(* The source has a defect of its macro blocks: a mcro line while a    *)
(* block is open, a mcroend closing a block in which no text line was  *)
(* read, or the end of the input while a block is open                 *)
RECURSIVE BlockDefect(_, _, _, _)
BlockDefect(src, k, open, body) ==
  IF k > Len(src) THEN open
  ELSE IF src[k].k = "mcro" THEN open \/ BlockDefect(src, k + 1, TRUE, 0)
  ELSE IF src[k].k = "mcroend"
  THEN (open /\ body = 0) \/ BlockDefect(src, k + 1, FALSE, 0)
  ELSE BlockDefect(src, k + 1, open,
                   IF src[k].k = "text" THEN body + 1 ELSE body)

(* mcro_exec has read the whole input and returned *)
ExpanderReturned ==
  /\ file > 0 /\ pc # "mcro" /\ disk.as
  /\ LastOutcome # "nooutput"
  /\ mx.ctl \notin {"exit", "null"}

(* C20: the expander returns failure for every source with a nested    *)
(* macro, an empty macro or an unclosed macro.                         *)
C20_BlockDefectsRejected ==
  (ExpanderReturned /\ BlockDefect(hist.src, 1, FALSE, 0)) =>
     mx.ret = 1 /\ ~hist.p1

(* C20 witness: an unclosed block with a body line and no other        *)
(* defect has been rejected                                            *)
C20_UnclosedRejected ==
  /\ ExpanderReturned /\ Len(hist.src) = 2
  /\ hist.src[1] = SrcMcro(2, "m1") /\ hist.src[2].k = "text"
  /\ mx.ret = 1 /\ mx.diags = <<Diag("mcro", 2, "Macro not closed before end of file")>>

(* The line of the .am file the step of Pass 1 reads *)
AmLine == mx.out[amk + 1]

(* The step of Pass 1 reads, without reporting anything, a line that   *)
(* defines the label of slot i, an .entry placeholder                  *)
DefinesPlaceholder(i) ==
  /\ pc = "p1" /\ amk' = amk + 1
  /\ cx'.diags = cx.diags
  /\ AmLine.lab # "" /\ AmLine.kind \in {"dir", "ins"}
  /\ i \in 1..Len(cx.label_set)
  /\ cx.label_set[i].l_name = AmLine.lab
  /\ IsUnknown(cx.label_set[i]) /\ cx.label_set[i].l_ent_or_ext = ENTRY

(* C21: when a label definition is processed while the Symbol Table    *)
(* holds an .entry placeholder for it, the slot of that name becomes   *)
(* data or instruction with the current DC or IC as offset and keeps   *)
(* linkage entry, and no other slot changes.                           *)
C21_PlaceholderFinalised ==
  [][\A i \in 1..Len(cx.label_set) :
       DefinesPlaceholder(i) =>
         /\ Len(cx'.label_set) = Len(cx.label_set)
         /\ cx'.label_set[i] =
              Label(AmLine.lab,
                    IF AmLine.kind = "dir" THEN UChar(cx.dc) ELSE UChar(cx.ic),
                    IF AmLine.kind = "dir" THEN DATA ELSE INS, ENTRY)
         /\ \A j \in 1..Len(cx.label_set) :
               j # i => cx'.label_set[j] = cx.label_set[j]]_vars

(* The number in the .am file of the last line of record k *)
RECURSIVE LineNumber(_, _)
LineNumber(out, k) == IF k = 0 THEN 0 ELSE LineNumber(out, k - 1) + out[k].n

(* C22: the undefined-entry diagnostic issued at the end of Pass 1     *)
(* carries the number of the line of the .entry declaration, for every *)
(* line number the file can have.                                      *)
C22_EntryLineReported ==
  \A d \in 1..Len(cx.diags) :
     cx.diags[d].msg = UndefinedEntryMessage =>
        \E k \in 1..Len(mx.out) :
           /\ mx.out[k].kind = "entry"
           /\ LineNumber(mx.out, k) = cx.diags[d].ln

(* The step of Pass 1 reads an instruction line and reports nothing *)
InsAccepted ==
  /\ pc = "p1" /\ amk' = amk + 1
  /\ AmLine.kind = "ins" /\ AmLine.lab = ""
  /\ cx'.diags = cx.diags

(* The words an operand takes in the instruction image *)
OperandWords(arg) == IF arg.t = "mat" THEN 2 ELSE 1

(* What the claim says a two-operand line appends *)
TwoOperandWords ==
  LET src == AmLine.args[1]
      dst == AmLine.args[2]
      opcode == Opcode(AmLine.cmd)
      old == Len(cx.ins_set)
  IN /\ SubSeq(cx'.ins_set, 1, old) = cx.ins_set
     /\ cx'.ins_set[old + 1] = opcode * 64 + AddrMode(src) * 16 + AddrMode(dst) * 4
     /\ IF src.t = "reg" /\ dst.t = "reg"
        THEN /\ Len(cx'.ins_set) = old + 2
             /\ cx'.ins_set[old + 2] = src.num.v * 64 + dst.num.v * 4
        ELSE Len(cx'.ins_set) = old + 1 + OperandWords(src) + OperandWords(dst)

(* C23: a two-operand instruction whose operands are both registers    *)
(* appends the title word and one word holding both registers; in      *)
(* every other combination each operand appends its own words and the  *)
(* title word holds the opcode and the two modes.                      *)
C23_TwoOperandEncoding ==
  [][(InsAccepted /\ Len(AmLine.args) = 2) => TwoOperandWords]_vars

(* The same for the lines read while was_reg is clear *)
C23_FromClearFlag ==
  [][(InsAccepted /\ Len(AmLine.args) = 2 /\ ~cx.was_reg) => TwoOperandWords]_vars

(* C28: the register-sharing flag was_reg is FALSE and no label is     *)
(* pending (label_flag FALSE) at the start of every line, including    *)
(* the lines that follow a rejected line.                              *)
C28_NoResidualState ==
  (pc = "p1" /\ cx.ctl # "fatal") => (~cx.was_reg /\ ~cx.label_flag)

(* The legal addressing modes of the claim, by command and position *)
LegalSource(cmd) ==
  CASE cmd \in {"mov", "add", "sub", "cmp"} -> {"imm", "dir", "mat", "reg"}
    [] cmd = "lea" -> {"dir", "mat"}
    [] OTHER -> {}

LegalDestination(cmd) ==
  CASE cmd \in {"cmp", "prn"} -> {"imm", "dir", "mat", "reg"}
    [] cmd \in {"rts", "stop"} -> {}
    [] OTHER -> {"dir", "mat", "reg"}

(* The step of Pass 1 reads an instruction line *)
InsRead == pc = "p1" /\ amk' = amk + 1 /\ AmLine.kind = "ins" /\ AmLine.lab = ""

(* The operands of the line in their positions: source first when      *)
(* there are two                                                       *)
LegalAt(k) ==
  IF Len(AmLine.args) = 2 /\ k = 1
  THEN AmLine.args[k].t \in LegalSource(AmLine.cmd)
  ELSE AmLine.args[k].t \in LegalDestination(AmLine.cmd)

(* The words of the operands before operand k *)
WordsBefore(k) == IF k = 1 THEN 0 ELSE OperandWords(AmLine.args[1])

(* C24: an instruction line is accepted without error only if every    *)
(* operand's addressing mode is in the legal set of its command and    *)
(* position; an illegal mode sets the error flag and appends no        *)
(* operand word for that operand.                                      *)
C24_LegalModes ==
  [][InsRead =>
       /\ cx'.diags = cx.diags =>
             \A k \in 1..Len(AmLine.args) : LegalAt(k)
       /\ \A k \in 1..Len(AmLine.args) :
             (~LegalAt(k) /\ \A j \in 1..(k - 1) : LegalAt(j)) =>
                /\ cx'.error
                /\ Len(cx'.ins_set) <= Len(cx.ins_set) + 1 + WordsBefore(k)]_vars

(* C24 witness: lea with an immediate source has been rejected, the    *)
(* title word alone appended                                           *)
C24_LeaImmediateRejected ==
  /\ pc = "p1" /\ amk = 1
  /\ mx.out[1].cmd = "lea" /\ mx.out[1].args[1].t = "imm"
  /\ cx.error /\ cx.ins_set = <<0>>
  /\ cx.diags = <<Diag("p1", 1, "The source parameter type does not match the command")>>

(* The step of Pass 1 reads a .mat directive *)
MatRead ==
  /\ pc = "p1" /\ amk' = amk + 1
  /\ AmLine.kind = "dir" /\ AmLine.cmd = "mat" /\ AmLine.lab = ""
  /\ AmLine.md.syn /\ AmLine.md.r >= 0 /\ AmLine.md.c >= 0

(* n values fit the r*c cells (r, c not negative) *)
FitsCells(n, r, c) == r > 0 /\ c > 0 /\ (n + c - 1) \div c <= r

(* The values of the tokens *)
TokenValues(toks) == [i \in 1..Len(toks) |-> toks[i].v]

(* The same for the dimensions whose product fits an int *)
C25_SmallMatWords ==
  [][(MatRead /\ AmLine.md # HugeMat) =>
       LET r == AmLine.md.r
           c == AmLine.md.c
           n == Len(AmLine.toks)
           old == Len(cx.dataset)
       IN /\ cx'.diags = cx.diags =>
               /\ FitsCells(n, r, c)
               /\ (Len(cx'.dataset) - old) \div c = r
               /\ (Len(cx'.dataset) - old) % c = 0
               /\ SubSeq(cx'.dataset, 1, old + n) = cx.dataset \o TokenValues(AmLine.toks)
               /\ \A i \in (old + n + 1)..Len(cx'.dataset) : cx'.dataset[i] = 0
          /\ ~FitsCells(n, r, c) => cx'.error]_vars

(* C25: a .mat [r][c] directive accepted without error has r*c > 0 and *)
(* appends exactly r*c words to the Data Image, the listed values in   *)
(* order followed by zeros; a directive with r*c not positive, or with *)
(* more than r*c values, sets the error flag.                          *)
C25_MatWords ==
  [][MatRead =>
       LET r == AmLine.md.r
           c == AmLine.md.c
           n == Len(AmLine.toks)
           old == Len(cx.dataset)
       IN /\ cx'.diags = cx.diags =>
               /\ FitsCells(n, r, c)
               /\ (Len(cx'.dataset) - old) \div c = r
               /\ (Len(cx'.dataset) - old) % c = 0
               /\ SubSeq(cx'.dataset, 1, old + n) = cx.dataset \o TokenValues(AmLine.toks)
               /\ \A i \in (old + n + 1)..Len(cx'.dataset) : cx'.dataset[i] = 0
          /\ ~FitsCells(n, r, c) => cx'.error]_vars

(* The string without its white space *)
Squeezed(rest) == SelectSeq(rest, LAMBDA ch : ch # " ")

(* The four defects of the comma discipline *)
LeadingComma(rest) == Squeezed(rest) # <<>> /\ Squeezed(rest)[1] = ","

TrailingComma(rest) ==
  Squeezed(rest) # <<>> /\ Squeezed(rest)[Len(Squeezed(rest))] = ","

ConsecutiveCommas(rest) ==
  \E k \in 1..(Len(Squeezed(rest)) - 1) :
     Squeezed(rest)[k] = "," /\ Squeezed(rest)[k + 1] = ","

MissingComma(rest) ==
  \E i, j \in 1..Len(rest) :
     /\ i + 1 < j /\ rest[i] = "a" /\ rest[j] = "a"
     /\ \A k \in (i + 1)..(j - 1) : rest[k] = " "

Defect(commas, rest) ==
  CASE commas = "lead" -> LeadingComma(rest)
    [] commas = "trail" -> TrailingComma(rest)
    [] commas = "multi" -> ConsecutiveCommas(rest)
    [] OTHER -> MissingComma(rest)

CommaDefects == {"lead", "trail", "multi", "missing"}

(* C26: is_valid_commas accepts a string iff it is empty or a sequence *)
(* of tokens with exactly one comma between adjacent tokens; a leading *)
(* comma, a trailing comma, two consecutive commas and two tokens      *)
(* separated by white space only are each rejected, set the error      *)
(* flag, and each yields its own diagnostic.                           *)
C26_CommaDiscipline ==
  /\ Cardinality({CommaMessage(k) : k \in CommaDefects}) = 4
  /\ scan.ret \in {"TRUE", "FALSE"} =>
       /\ scan.ret = "TRUE" <=> \A k \in CommaDefects : ~Defect(k, scan.rest)
       /\ scan.ret = "FALSE" =>
            /\ scan.error
            /\ \E k \in CommaDefects :
                  scan.msg = CommaMessage(k) /\ Defect(k, scan.rest)
            /\ \A k \in CommaDefects :
                  (Defect(k, scan.rest)
                     /\ \A o \in CommaDefects \ {k} : ~Defect(o, scan.rest))
                  => scan.msg = CommaMessage(k)

(* C26 witness: two tokens separated by a blank have been rejected for *)
(* the missing comma                                                   *)
C26_MissingCommaRejected ==
  /\ scan.rest = <<"a", " ", "a">> /\ scan.ret = "FALSE"
  /\ scan.error /\ scan.msg = "Missing comma between parameters"

(***************************************************************************)
(* C27: every slot of the Macro Table refers to a macro object, never to   *)
(* NULL, so that find_macro and free_all_macros, which read the name and   *)
(* the line count of every slot, have an object to read.  A mcroend read   *)
(* while no block is open stores the NULL current pointer in a new slot.   *)
(***************************************************************************)
C27_NoNullSlot ==
  \A i \in 1..Len(mx.mtab) : ~mx.mtab[i].null

(* a slot filled while a block is open refers to the macro of that block *)
C27_SlotsOfClosedBlocks ==
  [][\A i \in 1..Len(mx'.mtab) :
        (i > Len(mx.mtab) /\ mx.inside_macro) => ~mx'.mtab[i].null]_vars

(***************************************************************************)
(* C29: when Pass 1 has ended with the error flag clear, every symbol that *)
(* is not external lies inside its section: an instruction symbol below    *)
(* the final IC, a data symbol below the final DC; its absolute address is *)
(* in 100..255 and Pass 2 does not raise its overflow error.               *)
(***************************************************************************)
Pass1Clean == pc = "p2" /\ ~hist.p2flag

InSection(lab) ==
  /\ lab.l_data_or_ins = INS => lab.l_address < cx.ic
  /\ lab.l_data_or_ins = DATA => lab.l_address < cx.dc

(* patch_word_with_label has raised the overflow error for a reference   *)
(* already resolved                                                      *)
OverflowRaised ==
  \E j \in 1..sx.i :
     LET slot == SlotOf(cx.pending_refs[j])
     IN /\ slot # 0
        /\ cx.label_set[slot].l_ent_or_ext # EXTERNAL
        /\ label_abs_val(cx.label_set[slot], cx.ic) > ADDR_VALUE_MAX

C29_SymbolsInRange ==
  Pass1Clean =>
    /\ \A i \in 1..Len(cx.label_set) :
          cx.label_set[i].l_ent_or_ext # EXTERNAL =>
             /\ InSection(cx.label_set[i])
             /\ AbsOf(cx.label_set[i]) \in ORG_ADDRESS..ADDR_VALUE_MAX
    /\ ~OverflowRaised

(* the symbols are in range when no matrix read has a cell count that    *)
(* overflows                                                             *)
C29_WithoutHugeMat ==
  (\A k \in 1..Len(hist.src) : hist.src[k].st.md # HugeMat) => C29_SymbolsInRange

(***************************************************************************)
(* C30: after an error-free run on a basename, <base>.ent exists iff the   *)
(* Symbol Table has an entry symbol and <base>.ext exists iff a pending    *)
(* reference names an external symbol, whatever files of that basename     *)
(* existed before the run.                                                 *)
(***************************************************************************)
HasEntrySymbol ==
  \E i \in 1..Len(cx.label_set) : cx.label_set[i].l_ent_or_ext = ENTRY

HasExternalRef ==
  \E n \in 1..Len(cx.pending_refs) : IsExternalRef(cx.pending_refs[n])

C30_OptionalOutputs ==
  (Finished /\ LastOutcome = "assembled") =>
     /\ disk.ent # "absent" <=> HasEntrySymbol
     /\ disk.ext # "absent" <=> HasExternalRef

(* the files the run itself creates are the ones the tables call for *)
C30_FilesOfThisRun ==
  (Finished /\ LastOutcome = "assembled") =>
     /\ disk.ent = "written" <=> HasEntrySymbol
     /\ disk.ext = "written" <=> HasExternalRef
     /\ disk.ob = "written"

====
